---- MODULE Spec2Model ----
(***************************************************************************)
(* A model of the tire-temperature prediction core of rah-iracing-overlay: *)
(* TirePhysicsModel, TirePredictor (blend), TireDataCollector and          *)
(* StorageManager.                                                         *)
(*                                                                         *)
(* Arithmetic.  The Python code computes in IEEE-754 doubles.  The model   *)
(* computes in scaled integers:                                            *)
(*   temperatures of the physics layer    milli-degrees F   (70.0 = 70000) *)
(*   blended (rounded) temperatures       tenths of a degree (70.0 = 700)  *)
(*   throttle, brake, lateral g, shock    thousandths                      *)
(*   speed                                km/h                             *)
(*   timestamps and dt                    tenths of a second               *)
(*   confidences                          percent                          *)
(*   file sizes                           KB                               *)
(* Products are cut to the unit with \div (floor), which stands for the    *)
(* rounding of the double arithmetic.                                      *)
(***************************************************************************)
EXTENDS Integers, Sequences, FiniteSets, TLC

Tires == {"LF", "RF", "LR", "RR"}
Zones == {"L", "C", "R"}
FrontTires == {"LF", "RF"}
RearTires == {"LR", "RR"}
RightTires == {"RF", "RR"}
LeftTires == {"LF", "LR"}

Abs(x) == IF x < 0 THEN -x ELSE x
Min(a, b) == IF a < b THEN a ELSE b
Max(a, b) == IF a > b THEN a ELSE b

(***************************************************************************)
(* Bounds of the model (not program constants).                            *)
(***************************************************************************)
\* physics calls (predict, calibrate) explored after construction or a reset
MaxPhysSteps == 3
\* TirePredictor.predict calls explored within one session
MaxPredicts == 2
\* telemetry samples collected in one session
MaxTicks == 3
\* session files written
MaxFiles == 4
\* sessions started on one TirePredictor
MaxSessions == 1
\* corner observations merged into one track pattern
MaxCornerObs == 4
\* train_models calls for one car
MaxTrainCalls == 2
\* _queue_training calls
MaxEnqueues == 3
\* predict calls before, and in, a session whose trends are read
MaxTrendPredicts == 8
\* samples one DataCollector appends, over its sessions
MaxSamples == 61
\* samples at the start of a session during which the car may be on pit road
MaxPitRoadTicks == 2
\* direct _synthesize_session calls
MaxSynthOps == 3
\* truncated session files in the directory at a time
MaxTruncated == 1
MaxLearnCalls == 3
MaxConfSessions == 2
MaxKeySessions == 2
MaxKeyTicks == 1

(***************************************************************************)
(* Program constants of TirePhysicsModel.__init__ (scaled).                *)
(***************************************************************************)
AmbientBase == 70000
TrackTempInfluence == 400
ThrottleHeat == 3500
BrakeHeat == 5000
LateralHeat == 250
SpeedHeat == 200
CoolingRate == 8000
SpeedCooling == 15
StintHeatRate == 5
TempCeiling == 300000
DefaultDt == 10
MaxDt == 20

VARIABLES
    \* ---- TirePhysicsModel
    current_temps,      \* [Tires -> [Zones -> milli-degrees]]
    last_update_time,   \* 0 = not seeded
    pmTrace,            \* history: the physics calls since construction / the last reset
    resetBase,          \* history: the base_temp of the last reset (70000 at construction)
    floorTemp,          \* history: min(70000, lowest base_temp integrated since the reset)
    ceilTemp,           \* history: max(300000, highest base_temp integrated since the reset)
    lastTel,            \* history: <<>> or <<the telemetry of the last integrating predict>>
    \* ---- TireDataCollector
    is_recording,
    current_session,    \* <<>> (None) or <<[car, track, telemetry, pit_entries]>>
    telemetry_buffer,
    sampleDue,          \* time.time() - last_sample_time >= sample_interval
    last_pit_road_state,
    prevTick,           \* history: <<on_pit_road>> of the previous sampled tick of the session
    edgeTemps,          \* history: ground truth of the off->on edges between sampled ticks
    \* ---- the data directory
    files,              \* data/sessions/*.json.gz
    nextSeq,            \* files written so far (orders the mtimes)
    today,              \* the date, in days
    \* ---- TirePredictor
    current_car,        \* <<>> (None) or <<car_name>>
    current_track,
    loaded_models,      \* model key <<tire, zone>> -> val_mae of the loaded model
    current_predictions, \* the 'temps' of the last prediction, in tenths
    temp_history,       \* [Tires -> [Zones -> deque(maxlen=30)]]
    last_actual_temps,
    blendIn,            \* history: <<>> or <<the layer outputs the last predict blended>>
    calPre,             \* history: <<>> or <<the physics state before the calibration just done>>
    predCalls,          \* history: predict and calibrate calls of the session
    duePredicts,        \* history: predict calls of the session that found a sample due
    confidenceOut,      \* history: <<>> or <<the confidence of the last predict of the session, its terms>>
    sessionCalibrated,  \* history: calibrate_with_actual was called since the last start_session
    sessionsStarted,    \* history: start_session calls
    \* ---- StorageManager and the rest of the data directory
    model_files,        \* data/models/*.pkl
    synth_data,         \* calibrations/synthesized_training_data.json: combo -> samples
    lastCleanup,        \* history: <<>> or <<what the check_and_cleanup just run saw and did>>
    lastSynth,          \* history: <<>> or <<the merge of the last _synthesize_session>>
    synthOps,           \* history: direct _synthesize_session calls
    \* ---- TirePatternLearner
    corner_patterns,    \* track_patterns[combo]['corner_patterns']
    lastMerge,          \* history: <<>> or <<the list before the last merge, the new corners>>
    car_patterns,       \* car -> pattern of the car class
    track_patterns,     \* <<car, track>> -> pattern of the combo
    patterns_files,     \* car_class_patterns.json and track_specific.json
    arrived,            \* history: every entry ever added to a capped list, in order
    lastDetect,         \* history: <<>> or <<the telemetry of the last session scanned, the corners found>>
    learnCalls,         \* history: learn_from_session calls
    \* ---- the names under which sessions are stored and looked up
    startedAs,          \* history: file seq -> the names given to the start_session of its session
    learnedSeqs,        \* history: the files learn_from_session was called on
    lastLookup,         \* history: <<>> or <<the last _get_pattern_adjustment: names, confidence>>
    lastLoad,           \* history: <<>> or <<the car and the directory of the last train_models>>
    \* ---- TireModelTrainer (the models of one car in data/models)
    persisted_models,   \* zone key -> [val_mae, readable] of <car>_<key>.pkl
    train_result,       \* <<>> or <<what the last train_models call got and returned>>
    trainCalls,         \* history: train_models calls
    \* ---- the samples of the sessions a DataCollector wrote
    collected,          \* history: samples appended in the current session
    savedCounts,        \* history: file seq -> samples appended in its session
    \* ---- TirePredictor.predict: current_predictions['trends']
    current_trends,     \* tire -> trend (no entry before the first predict)
    trendIn,            \* history: <<>> or <<temp_history as the last predict of the session found it>>
    \* ---- TirePredictor: background training and the calls of its owner
    training_queue,     \* list of car names
    threads,            \* the worker threads started so far; training_thread is the last one
    should_stop_training,
    callPc,             \* where the owner's thread is: "idle", "queue_check", "join"
    raised,             \* the exception the last public call let escape ("" if none)
    lastCall,           \* history: the last public call
    lastEnd,            \* history: <<>> or <<what the last end_session call did>>
    enqueuedLog,        \* history: the cars appended to the queue, in order
    dequeuedLog,        \* history: the cars popped off the queue, in order
    dequeuedAtStop,     \* history: Len(dequeuedLog) when shutdown set the flag
    lastQueue,          \* history: <<>> or <<the last _queue_training: the queue before, the car, the queue after>>
    enqueueCalls        \* history: _queue_training calls

physVars == <<current_temps, last_update_time, pmTrace, resetBase, floorTemp, ceilTemp, lastTel>>
collVars == <<is_recording, current_session, telemetry_buffer, sampleDue,
              last_pit_road_state, prevTick, edgeTemps>>
dirVars == <<files, nextSeq, today>>
storVars == <<model_files, synth_data, lastCleanup, lastSynth, synthOps>>
cornerVars == <<corner_patterns, lastMerge>>
patternVars == <<car_patterns, track_patterns, patterns_files, arrived, lastDetect, learnCalls>>
keyVars == <<startedAs, learnedSeqs, lastLookup, lastLoad>>
learnVars == <<cornerVars, patternVars, keyVars>>
\* the state of the layers added after the storage layer
trainVars == <<persisted_models, train_result, trainCalls>>
countVars == <<collected, savedCounts>>
queueVars == <<training_queue, threads, enqueuedLog, dequeuedLog, lastQueue, enqueueCalls>>
callVars == <<callPc, raised, lastCall, lastEnd>>
stopVars == <<should_stop_training, dequeuedAtStop>>
lifeVars == <<queueVars, callVars, stopVars>>
otherVars == <<learnVars, countVars, lifeVars>>
trendVars == <<current_trends, trendIn>>
predVars == <<current_car, current_track, loaded_models, current_predictions,
              temp_history, last_actual_temps, blendIn, calPre, predCalls,
              duePredicts, confidenceOut, sessionCalibrated, sessionsStarted>>

(***************************************************************************)
(* Telemetry as TirePhysicsModel.predict reads it.  timestamp 0 stands for *)
(* a snapshot without the key (telemetry.get('timestamp', 0)).             *)
(***************************************************************************)
NoShock == [t \in Tires |-> 0]

Tel(ts, thr, brk, spd, lat, trk, stint, shock) ==
    [timestamp |-> ts, throttle |-> thr, brake |-> brk, speed |-> spd,
     lateral |-> lat, track_temp |-> trk, stint_time |-> stint, shock |-> shock]

TimeStamps == {0, 1000, 1005}

\* the driving situations fed to predict: idle on a 75 F track, full throttle
\* on a hot track late in the stint, braking into a right-hand and a
\* left-hand corner with loaded shocks, coasting on a cold track, and a
\* snapshot whose track temperature reads 700 F; a left-hand corner on
\* level shocks
TelemetryKinds(ts) ==
    { Tel(ts, 0, 0, 0, 0, 75, 0, NoShock),
      Tel(ts, 1000, 0, 200, 0, 100, 600, NoShock),
      Tel(ts, 0, 1000, 150, 1500, 75, 60, [t \in Tires |-> IF t \in RightTires THEN 60 ELSE 10]),
      Tel(ts, 600, 0, 120, -1500, 75, 60, [t \in Tires |-> IF t \in LeftTires THEN 60 ELSE 10]),
      Tel(ts, 0, 0, 120, -1500, 75, 60, NoShock),
      Tel(ts, 0, 0, 50, 0, 50, 0, NoShock),
      Tel(ts, 0, 0, 0, 0, 700, 0, NoShock) }

Telemetries == UNION { TelemetryKinds(ts) : ts \in TimeStamps }

(***************************************************************************)
(* TirePhysicsModel._calculate_load_factor, in thousandths.                *)
(***************************************************************************)
PM_LoadFactor(tire, lateral_g, throttle, brake, loads) ==
    LET load_from_shock == 1000 + (loads[tire] * 500) \div 1000
        lateral_load ==
            IF lateral_g > 100
            THEN IF tire \in RightTires
                 THEN 1000 + (Abs(lateral_g) * 3) \div 10
                 ELSE 1000 - (Abs(lateral_g) * 2) \div 10
            ELSE IF lateral_g < -100
                 THEN IF tire \in LeftTires
                      THEN 1000 + (Abs(lateral_g) * 3) \div 10
                      ELSE 1000 - (Abs(lateral_g) * 2) \div 10
                 ELSE 1000
        accel_load ==
            IF throttle > 500
            THEN IF tire \in RearTires THEN 1000 + (throttle * 2) \div 10
                                       ELSE 1000 - throttle \div 10
            ELSE 1000
        long_load ==
            IF brake > 500
            THEN IF tire \in FrontTires THEN accel_load + (brake * 3) \div 10
                                        ELSE accel_load - (brake * 15) \div 100
            ELSE accel_load
        total_load == (((load_from_shock * lateral_load) \div 1000) * long_load) \div 1000
    IN  Max(500, Min(total_load, 2000))

(***************************************************************************)
(* TirePhysicsModel._get_zone_lateral_factor, in ten-thousandths.          *)
(***************************************************************************)
PM_ZoneLateralFactor(tire, zone, lateral_g) ==
    LET base_factor == Abs(lateral_g)
    IN  IF lateral_g > 100
        THEN IF tire \in RightTires
             THEN (IF zone = "L" THEN base_factor * 13
                   ELSE IF zone = "C" THEN base_factor * 10
                   ELSE base_factor * 7)
             ELSE (IF zone = "R" THEN base_factor * 12 ELSE base_factor * 8)
        ELSE IF lateral_g < -100
             THEN IF tire \in LeftTires
                  THEN (IF zone = "R" THEN base_factor * 13
                        ELSE IF zone = "C" THEN base_factor * 10
                        ELSE base_factor * 7)
                  ELSE (IF zone = "L" THEN base_factor * 12 ELSE base_factor * 8)
             ELSE (IF zone = "C" THEN base_factor * 10 ELSE base_factor * 8)

\* PM_ClampTemp without its lower bound
PM_ClampTempNoFloor(x, lo, hi) == Min(x, hi)

\* max(base_temp, min(new_temp, 300.0))
PM_ClampTemp(x, lo, hi) == Max(lo, Min(x, hi))

\* base_temp = ambient_base + (track_temp - 75) * track_temp_influence
PM_BaseTemp(t) == AmbientBase + (t.track_temp - 75) * TrackTempInfluence

\* dt = current_time - last_update_time; out of (0, 2.0] it becomes 1.0
PM_Dt(lut, t) ==
    LET dt == t.timestamp - lut
    IN  IF dt <= 0 \/ dt > MaxDt THEN DefaultDt ELSE dt

(***************************************************************************)
(* One zone of the update loop of TirePhysicsModel.predict.                *)
(***************************************************************************)
\* lateral_g = abs(g_forces.get('lateral', 0.0))
PM_LateralG(t) == Abs(t.lateral)

\* the load multiplier and the zone lateral factor predict applies to a zone
PM_AppliedLoadFactor(tire, t) ==
    PM_LoadFactor(tire, PM_LateralG(t), t.throttle, t.brake, t.shock)
PM_AppliedZoneFactor(tire, zone, t) == PM_ZoneLateralFactor(tire, zone, PM_LateralG(t))

PM_ZoneUpdate(current_temp, tire, zone, t, dt) ==
    LET load_factor == PM_AppliedLoadFactor(tire, t)
        rate == (IF tire \in RearTires THEN t.throttle * ThrottleHeat ELSE 0)
              + (IF tire \in FrontTires THEN t.brake * BrakeHeat ELSE 0)
              + PM_AppliedZoneFactor(tire, zone, t) * LateralHeat
              + t.speed * SpeedHeat
        generated == (((rate * dt) \div 10000) * load_factor) \div 1000
        stint_heat == (t.stint_time * dt * StintHeatRate) \div 3600
        heat == generated + stint_heat
        cooling == (dt * (CoolingRate + (t.speed * SpeedCooling) \div 10)) \div 100
        new_temp == PM_ClampTemp(current_temp + heat - cooling, PM_BaseTemp(t), TempCeiling)
    IN  (3 * new_temp + 7 * current_temp) \div 10

\* the temperatures predict leaves in current_temps (and returns)
PM_PredictTemps(temps, lut, t) ==
    IF lut = 0
    THEN temps
    ELSE [tire \in Tires |-> [zone \in Zones |->
             PM_ZoneUpdate(temps[tire][zone], tire, zone, t, PM_Dt(lut, t))]]

UniformTemps(b) == [tire \in Tires |-> [zone \in Zones |-> b]]

(***************************************************************************)
(* TirePhysicsModel.predict                                                *)
(***************************************************************************)
PM_PredictEffect(t) ==
    /\ current_temps' = PM_PredictTemps(current_temps, last_update_time, t)
    /\ last_update_time' = t.timestamp
    /\ pmTrace' = Append(pmTrace, IF last_update_time = 0 THEN "seed" ELSE "integrate")
    /\ floorTemp' = IF last_update_time = 0 THEN floorTemp
                    ELSE Min(floorTemp, PM_BaseTemp(t))
    /\ ceilTemp' = IF last_update_time = 0 THEN ceilTemp
                   ELSE Max(ceilTemp, PM_BaseTemp(t))
    /\ lastTel' = IF last_update_time = 0 THEN lastTel ELSE << t >>
    /\ UNCHANGED resetBase

PM_Predict(t) ==
    /\ Len(pmTrace) < MaxPhysSteps
    /\ PM_PredictEffect(t)

(***************************************************************************)
(* TirePhysicsModel.reset                                                  *)
(***************************************************************************)
ResetBases == {70000, 150000}

PM_Reset(base_temp) ==
    /\ current_temps' = UniformTemps(base_temp)
    /\ last_update_time' = 0
    /\ pmTrace' = <<>>
    /\ resetBase' = base_temp
    /\ floorTemp' = Min(AmbientBase, base_temp)
    /\ ceilTemp' = Max(TempCeiling, base_temp)
    /\ lastTel' = <<>>

(***************************************************************************)
(* TirePhysicsModel.calibrate.  actual_temps is a dict of dicts: a tire or *)
(* a zone may be absent, a value may be 0.0 (float(x or 0.0)) or negative. *)
(***************************************************************************)
\* PM_CalibrateTemps applying every nonzero value
PM_CalibrateTempsNonzero(temps, actual) ==
    [tire \in Tires |-> [zone \in Zones |->
        IF /\ tire \in DOMAIN actual
           /\ zone \in DOMAIN actual[tire]
           /\ actual[tire][zone] # 0
        THEN actual[tire][zone]
        ELSE temps[tire][zone]]]

\* if actual and actual > 0: self.current_temps[tire][zone] = actual
PM_CalibrateTemps(temps, actual) ==
    [tire \in Tires |-> [zone \in Zones |->
        IF /\ tire \in DOMAIN actual
           /\ zone \in DOMAIN actual[tire]
           /\ actual[tire][zone] # 0
           /\ actual[tire][zone] > 0
        THEN actual[tire][zone]
        ELSE temps[tire][zone]]]

\* readings with a tire or a zone missing, a 0.0 and negative values
PartialActualTemps ==
    { [tire \in {"LF"} |-> ("L" :> 201000 @@ "C" :> 0)],
      [tire \in {"LF", "RR"} |-> [zone \in Zones |-> IF tire = "LF" THEN -5000 ELSE 52250]] }

ActualTemps ==
    PartialActualTemps \cup { [tire \in Tires |-> [zone \in Zones |-> 185500]],
                              [tire \in {} |-> 0] }

PM_Calibrate(actual) ==
    /\ Len(pmTrace) < MaxPhysSteps
    /\ current_temps' = PM_CalibrateTemps(current_temps, actual)
    /\ pmTrace' = Append(pmTrace, "calibrate")
    /\ UNCHANGED <<last_update_time, resetBase, floorTemp, ceilTemp, lastTel>>

(***************************************************************************)
(* TireDataCollector                                                       *)
(*                                                                         *)
(* A car or track name is a sequence of words; the sanitized name is the   *)
(* sequence of its lower-cased words, which the file name joins with "_".  *)
(***************************************************************************)
Lower(w) == IF w = "A" THEN "a" ELSE IF w = "C" THEN "c" ELSE w

\* TireDataCollector._sanitize_name
DC_SanitizeName(name) == [i \in DOMAIN name |-> Lower(name[i])]

CarNames == { <<"A">>, <<"a", "b">> }
TrackNames == { <<"C">>, <<"b", "c">> }

\* the snapshots handed to collect_sample: the flat key-value snapshot of the
\* simulator (OnPitRoad, Lap, SessionTime, the ground-truth temperatures), or
\* the nested dictionary TirePredictor.predict passes on, which has no
\* 'OnPitRoad' key
GroundTruths == {180000, 205000}
FlatSnapshot(p, g) ==
    [kind |-> "flat", on_pit_road |-> p, lap |-> 2, session_time |-> 180, temps |-> g]
FlatSnapshots ==
    { FlatSnapshot(FALSE, 180000) } \cup { FlatSnapshot(TRUE, g) : g \in GroundTruths }
NestedSnapshot == [kind |-> "nested"]

\* TireDataCollector._extract_telemetry (the fields the other layers read)
DC_ExtractTelemetry(ir) == [lap_num |-> ir.lap, stint_time |-> ir.session_time]

\* the pit_entry dict of TireDataCollector._record_pit_entry (the fields the
\* other layers read)
DC_PitEntry(ir) == [total_laps |-> ir.lap, temps |-> ir.temps]

\* a flush that stores the buffered samples twice
DC_FlushedTwice(session, buffer) ==
    [session EXCEPT !.telemetry = session.telemetry \o buffer \o buffer]

\* a flush that forgets the buffered samples
DC_FlushedNothing(session, buffer) == session

\* TireDataCollector._flush_buffer, on the session record
DC_Flushed(session, buffer) ==
    [session EXCEPT !.telemetry = session.telemetry \o buffer]

FlushEvery == 60

\* the file TireDataCollector._save_session writes
DC_SessionFile(session, seq, day, size) ==
    [seq |-> seq, day |-> day, car |-> session.car, track |-> session.track,
     size |-> size, ok |-> TRUE,
     telemetry |-> session.telemetry, pit_entries |-> session.pit_entries,
     total_samples |-> Len(session.telemetry), n_pit_entries |-> Len(session.pit_entries)]

\* the size of a saved session file
SessionSizes == {40000}

\* TireDataCollector.end_session as a state change; it returns None when no
\* session is active
DC_EndSessionEffect(size) ==
    IF ~is_recording \/ current_session = <<>>
    THEN UNCHANGED <<is_recording, current_session, telemetry_buffer, files, nextSeq>>
    ELSE /\ files' = files \cup
                { DC_SessionFile(DC_Flushed(current_session[1], telemetry_buffer),
                                 nextSeq + 1, today, size) }
         /\ nextSeq' = nextSeq + 1
         /\ is_recording' = FALSE
         /\ current_session' = <<>>
         /\ telemetry_buffer' = <<>>

DC_EndSession(size) ==
    /\ nextSeq < MaxFiles
    /\ DC_EndSessionEffect(size)
    /\ UNCHANGED <<sampleDue, last_pit_road_state, prevTick, edgeTemps, today>>

\* TireDataCollector.start_session: a session still recording is ended (and
\* saved) first
DC_StartSession(car_name, track_name, size) ==
    /\ nextSeq < MaxFiles
    /\ IF is_recording /\ current_session # <<>>
       THEN /\ files' = files \cup
                   { DC_SessionFile(DC_Flushed(current_session[1], telemetry_buffer),
                                    nextSeq + 1, today, size) }
            /\ nextSeq' = nextSeq + 1
       ELSE UNCHANGED <<files, nextSeq>>
    /\ current_session' = << [car |-> DC_SanitizeName(car_name),
                              track |-> DC_SanitizeName(track_name),
                              telemetry |-> <<>>, pit_entries |-> <<>>] >>
    /\ telemetry_buffer' = <<>>
    /\ is_recording' = TRUE
    /\ last_pit_road_state' = FALSE
    /\ prevTick' = <<>>
    /\ edgeTemps' = <<>>
    /\ UNCHANGED <<sampleDue, today>>

\* if on_pit_road and not self.last_pit_road_state
DC_IsPitEntry(on_pit_road, last_state) == on_pit_road /\ ~last_state

\* TireDataCollector.collect_sample
DC_CollectSampleEffect(ir) ==
    IF ~is_recording \/ ~sampleDue
    THEN UNCHANGED collVars
    ELSE /\ sampleDue' = FALSE
         /\ IF ir.kind = "nested"
            THEN \* ir_data['OnPitRoad'] raises KeyError: logged, the tick is lost
                 UNCHANGED <<is_recording, current_session, telemetry_buffer,
                             last_pit_road_state, prevTick, edgeTemps>>
            ELSE LET entered == DC_IsPitEntry(ir.on_pit_road, last_pit_road_state)
                     s1 == IF entered /\ current_session # <<>>
                           THEN [current_session[1] EXCEPT
                                    !.pit_entries = Append(@, DC_PitEntry(ir))]
                           ELSE current_session[1]
                     buf == Append(telemetry_buffer, DC_ExtractTelemetry(ir))
                 IN  /\ last_pit_road_state' = ir.on_pit_road
                     /\ IF Len(buf) >= FlushEvery
                        THEN /\ current_session' = << DC_Flushed(s1, buf) >>
                             /\ telemetry_buffer' = <<>>
                        ELSE /\ current_session' = << s1 >>
                             /\ telemetry_buffer' = buf
                     /\ edgeTemps' = IF prevTick = <<FALSE>> /\ ir.on_pit_road
                                     THEN Append(edgeTemps, ir.temps)
                                     ELSE edgeTemps
                     /\ prevTick' = << ir.on_pit_road >>
                     /\ UNCHANGED is_recording

DC_SessionTicks ==
    IF current_session = <<>> THEN 0
    ELSE Len(current_session[1].telemetry) + Len(telemetry_buffer)

DC_CollectSample(ir) ==
    /\ DC_SessionTicks < MaxTicks
    /\ DC_CollectSampleEffect(ir)
    /\ UNCHANGED dirVars

\* a second of wall-clock time passes
DC_SecondPasses ==
    /\ ~sampleDue
    /\ sampleDue' = TRUE
    /\ UNCHANGED <<is_recording, current_session, telemetry_buffer,
                   last_pit_road_state, prevTick, edgeTemps>>
    /\ UNCHANGED dirVars

(***************************************************************************)
(* TirePredictor                                                           *)
(***************************************************************************)
ZoneKeys == Tires \X Zones

\* what TireModelTrainer.load_models can find on disk for a car: nothing, a
\* model for every zone (val_mae 10), models whose val_mae is 60, models for
\* the zones of one tire only
LoadableModels ==
    { [k \in {} |-> 0],
      [k \in ZoneKeys |-> 10],
      [k \in ZoneKeys |-> 60],
      [k \in {"LF"} \X Zones |-> 20] }

\* TireModelTrainer.predict: conf = max(0, 1 - mae / 50) per loaded zone
\* model, the overall confidence their mean; a zone without a model keeps 0.
\* out is what the regressors return.
MT_ZoneConf(mae) == Max(0, 100 - 2 * mae)

RECURSIVE SumOver(_, _)
SumOver(f, S) ==
    IF S = {} THEN 0
    ELSE LET x == CHOOSE y \in S : TRUE IN f[x] + SumOver(f, S \ {x})

MT_Predict(models, out) ==
    [temps |-> [tire \in Tires |-> [zone \in Zones |->
                   IF <<tire, zone>> \in DOMAIN models THEN out ELSE 0]],
     confidence |->
        IF DOMAIN models = {} THEN 0
        ELSE SumOver([k \in DOMAIN models |-> MT_ZoneConf(models[k])], DOMAIN models)
                 \div Cardinality(DOMAIN models)]

\* TirePredictor._get_ml_prediction.  _empty_predictions() nests its zones
\* under 'temps', so the blend reads 0 for every zone of it.
TP_GetMlPrediction(models, out) ==
    IF DOMAIN models = {}
    THEN [temps |-> UniformTemps(0), confidence |-> 0]
    ELSE MT_Predict(models, out)

MlOutputs == {45000, 210000}

\* TirePatternLearner.get_pattern_adjustment: the car-class and the
\* track-specific adjustment, each weighted by its confidence
PL_GetPatternAdjustment(car_adj, car_conf, track_adj, track_conf) ==
    [adj |-> [tire \in Tires |-> [zone \in Zones |->
                 (car_adj[tire][zone] * car_conf + track_adj[tire][zone] * track_conf)
                     \div 100]],
     confidence |-> (car_conf + track_conf) \div 2]

\* a corner of 1.5 g heats LF.L and RF.R by 3 F; no corner nearby
CornerAdj == [tire \in Tires |-> [zone \in Zones |->
                 IF <<tire, zone>> \in {<<"LF", "L">>, <<"RF", "R">>} THEN 3000 ELSE 0]]

\* what the pattern stores can answer: nothing learned; a car pattern of
\* five sessions whose reference temperature is 150 F ((150 - 180) * 0.1)
\* with a fully trusted track pattern
PatternOuts ==
    { PL_GetPatternAdjustment(UniformTemps(0), 0, UniformTemps(0), 0),
      PL_GetPatternAdjustment(UniformTemps(-3000), 50, CornerAdj, 100) }

\* TirePredictor._get_pattern_adjustment
TP_GetPatternAdjustment(car, track, pat) ==
    IF car = <<>> \/ track = <<>>
    THEN [adj |-> UniformTemps(0), confidence |-> 0]
    ELSE pat

PhysicsWeight == 300
BlendFloor == 60000
BlendCeiling == 300000

\* total_weight = physics_weight + pattern_weight + ml_weight, in thousandths
TP_TotalWeight(pattern_conf, ml_conf) == PhysicsWeight + 2 * pattern_conf + 3 * ml_conf

\* round(x, 1) of x = n / d milli-degrees, n >= 0: the nearest tenth, a tie
\* to the even one
RoundTenth(n, d) ==
    LET q == n \div (d * 100)
        r == n % (d * 100)
    IN  IF 2 * r < d * 100 THEN q
        ELSE IF 2 * r > d * 100 THEN q + 1
        ELSE IF q % 2 = 0 THEN q ELSE q + 1

\* max(60, min(blended_temp, 300)) and round(.., 1) of n / d milli-degrees
TP_ClampRound(n, d) ==
    IF n < BlendFloor * d THEN BlendFloor \div 100
    ELSE IF n > BlendCeiling * d THEN BlendCeiling \div 100
    ELSE RoundTenth(n, d)

\* TP_BlendTemp with an ML weight that is not scaled by the ML confidence
TP_BlendTempUnscaledMl(physics_temp, pattern_adjustment, ml_temp, pattern_conf, ml_conf) ==
    TP_ClampRound(physics_temp * PhysicsWeight
                    + (physics_temp + pattern_adjustment) * 2 * pattern_conf
                    + ml_temp * 300,
                  PhysicsWeight + 2 * pattern_conf + 300)

\* TP_BlendTemp without the clamp
TP_BlendTempNoClamp(physics_temp, pattern_adjustment, ml_temp, pattern_conf, ml_conf) ==
    RoundTenth(physics_temp * PhysicsWeight
                 + (physics_temp + pattern_adjustment) * 2 * pattern_conf
                 + ml_temp * 3 * ml_conf,
               TP_TotalWeight(pattern_conf, ml_conf))

\* one zone of TirePredictor._blend_predictions, in tenths
TP_BlendTemp(physics_temp, pattern_adjustment, ml_temp, pattern_conf, ml_conf) ==
    LET total_weight == TP_TotalWeight(pattern_conf, ml_conf)
    IN  IF total_weight > 0
        THEN TP_ClampRound(physics_temp * PhysicsWeight
                             + (physics_temp + pattern_adjustment) * 2 * pattern_conf
                             + ml_temp * 3 * ml_conf,
                           total_weight)
        ELSE TP_ClampRound(physics_temp, 1)

\* TirePredictor._blend_predictions
TP_BlendPredictions(physics, pattern_adj, ml_pred, pattern_conf, ml_conf) ==
    [tire \in Tires |-> [zone \in Zones |->
        TP_BlendTemp(physics[tire][zone], pattern_adj[tire][zone],
                     ml_pred[tire][zone], pattern_conf, ml_conf)]]

\* TirePredictor._calculate_confidence, in ten-thousandths: the layer
\* confidences in percent, the stint time in seconds; actual is
\* last_actual_temps
TP_CalibrationTerm(actual) == IF DOMAIN actual # {} THEN 100 ELSE 0

TP_CalculateConfidence(pattern_conf, ml_conf, t, actual) ==
    LET model_term == (pattern_conf + ml_conf) * 35
        stint_term == (Max(0, 1200 - t.stint_time) * 5) \div 3
    IN  Max(0, Min(model_term + stint_term + TP_CalibrationTerm(actual), 10000))

HistoryMaxLen == 30

\* deque(maxlen=30).append
DequeAppend(q, x) ==
    IF Len(q) >= HistoryMaxLen THEN Append(Tail(q), x) ELSE Append(q, x)

\* TirePredictor._update_history
TP_UpdateHistory(history, temps) ==
    [tire \in Tires |-> [zone \in Zones |->
        IF temps[tire][zone] > 0
        THEN DequeAppend(history[tire][zone], temps[tire][zone])
        ELSE history[tire][zone]]]

EmptyHistory == [tire \in Tires |-> [zone \in Zones |-> <<>>]]

(***************************************************************************)
(* TirePredictor._calculate_trends.  The rate is kept as                   *)
(* sum(recent) - sum(older) in tenths of a degree, which is 250 times the  *)
(* rate in degrees per sample.                                             *)
(***************************************************************************)
TrendMinPoints == 10
TrendWindow == 5
FastRate == 1250
SlowRate == 500

RECURSIVE SumSeq(_)
SumSeq(q) == IF q = <<>> THEN 0 ELSE Head(q) + SumSeq(Tail(q))

\* the history list of a tire: its L, C and R deques one after the other
TP_TireHistory(history, tire) ==
    history[tire]["L"] \o history[tire]["C"] \o history[tire]["R"]

\* sum(history[-5:]) - sum(history[-10:-5])
TP_Rate(h) ==
    SumSeq(SubSeq(h, Len(h) - TrendWindow + 1, Len(h)))
        - SumSeq(SubSeq(h, Len(h) - 2 * TrendWindow + 1, Len(h) - TrendWindow))

\* a classification without the fast trends
TP_ClassifyTrendNoFast(rate) ==
    IF rate > SlowRate THEN "heating"
    ELSE IF rate < 0 - SlowRate THEN "cooling"
    ELSE "stable"

TP_ClassifyTrend(rate) ==
    IF rate > FastRate THEN "heating_fast"
    ELSE IF rate > SlowRate THEN "heating"
    ELSE IF rate < 0 - FastRate THEN "cooling_fast"
    ELSE IF rate < 0 - SlowRate THEN "cooling"
    ELSE "stable"

TP_CalculateTrends(history) ==
    [tire \in Tires |->
        IF Len(TP_TireHistory(history, tire)) >= TrendMinPoints
        THEN TP_ClassifyTrend(TP_Rate(TP_TireHistory(history, tire)))
        ELSE "unknown"]

(***************************************************************************)
(* TirePredictor.start_session                                             *)
(***************************************************************************)
TP_StartSessionEffect(car_name, track_name, models, size) ==
    /\ sessionsStarted' = sessionsStarted + 1
    /\ current_car' = << car_name >>
    /\ current_track' = << track_name >>
    /\ DC_StartSession(car_name, track_name, size)
    /\ loaded_models' = models
    /\ PM_Reset(AmbientBase)
    /\ temp_history' = EmptyHistory
    /\ calPre' = <<>>
    /\ predCalls' = 0
    /\ duePredicts' = 0
    /\ confidenceOut' = <<>>
    /\ sessionCalibrated' = FALSE
    /\ trendIn' = <<>>
    /\ UNCHANGED <<current_predictions, current_trends, last_actual_temps, blendIn>>

TP_StartSession(car_name, track_name, models, size) ==
    /\ sessionsStarted < MaxSessions
    /\ TP_StartSessionEffect(car_name, track_name, models, size)

(***************************************************************************)
(* TirePredictor.predict: the sample handed to the collector, the three    *)
(* layers, the blend, the history.                                         *)
(***************************************************************************)
TP_PredictEffect(t, pat, out) ==
    /\ predCalls' = predCalls + 1
    /\ duePredicts' = IF is_recording /\ sampleDue THEN duePredicts + 1 ELSE duePredicts
    /\ IF is_recording THEN DC_CollectSampleEffect(NestedSnapshot)
                       ELSE UNCHANGED collVars
    /\ PM_PredictEffect(t)
    /\ \E pattern \in { TP_GetPatternAdjustment(current_car, current_track, pat) },
          ml \in { TP_GetMlPrediction(loaded_models, out) } :
          \E final \in { TP_BlendPredictions(current_temps', pattern.adj, ml.temps,
                                              pattern.confidence, ml.confidence) } :
              /\ current_predictions' = final
              /\ confidenceOut' =
                     << [confidence |-> TP_CalculateConfidence(pattern.confidence, ml.confidence,
                                                               t, last_actual_temps),
                         pattern_conf |-> pattern.confidence,
                         ml_conf |-> ml.confidence,
                         calibration_term |-> TP_CalibrationTerm(last_actual_temps)] >>
              /\ temp_history' = TP_UpdateHistory(temp_history, final)
              /\ blendIn' = << [physics |-> current_temps', adj |-> pattern.adj,
                                ml |-> ml.temps,
                                pattern_conf |-> pattern.confidence,
                                ml_conf |-> ml.confidence,
                                with_model |-> DOMAIN loaded_models,
                                total_weight |-> TP_TotalWeight(pattern.confidence,
                                                                ml.confidence)] >>
    /\ current_trends' = TP_CalculateTrends(temp_history)
    /\ trendIn' = << temp_history >>
    /\ calPre' = <<>>
    /\ UNCHANGED <<current_car, current_track, loaded_models, last_actual_temps,
                   sessionCalibrated, sessionsStarted>>
    /\ UNCHANGED dirVars

TP_Predict(t, pat, out) ==
    /\ predCalls < MaxPredicts
    /\ Len(pmTrace) < MaxPhysSteps
    /\ TP_PredictEffect(t, pat, out)

(***************************************************************************)
(* TirePredictor.calibrate_with_actual                                     *)
(***************************************************************************)
TP_CalibrateWithActual(actual) ==
    /\ predCalls < MaxPredicts
    /\ predCalls' = predCalls + 1
    /\ last_actual_temps' = actual
    /\ PM_Calibrate(actual)
    /\ calPre' = << [temps |-> current_temps, last_update_time |-> last_update_time] >>
    /\ sessionCalibrated' = TRUE
    /\ UNCHANGED <<current_car, current_track, loaded_models, current_predictions,
                   temp_history, blendIn, duePredicts, confidenceOut, sessionsStarted>>
    /\ UNCHANGED collVars
    /\ UNCHANGED dirVars

(***************************************************************************)
(* StorageManager                                                          *)
(***************************************************************************)
MaxTotalSize == 102400
WarningThreshold == 81920
MinSessionsPerCombo == 3
SessionRetentionDays == 30
ModelRetentionDays == 60
MaxSyntheticSamples == 100

RECURSIVE SumSizes(_)
SumSizes(S) ==
    IF S = {} THEN 0
    ELSE LET f == CHOOSE g \in S : TRUE IN f.size + SumSizes(S \ {f})

\* the synthesized store on disk: about a KB for a sample
SM_SynthFileSize(synth) == SumOver([k \in DOMAIN synth |-> Len(synth[k])], DOMAIN synth)

\* StorageManager.get_storage_stats
SM_StorageStats(fs, models, synth) ==
    LET total_size == SumSizes(fs) + SumSizes(models) + SM_SynthFileSize(synth)
    IN  [total |-> total_size,
         session_count |-> Cardinality(fs),
         model_count |-> Cardinality(models),
         needs_cleanup |-> total_size > WarningThreshold]

\* the combo StorageManager._group_sessions reads off a file name
\* car_track_YYYYMMDD_HHMMSS: the words before the date, split at
\* timestamp_start // 2 + 1
SM_GroupKey(f) ==
    LET parts == f.car \o f.track
        timestamp_start == Len(parts)
        n == timestamp_start \div 2 + 1
    IN  << SubSeq(parts, 1, n), SubSeq(parts, n + 1, timestamp_start) >>

SM_Group(fs, combo) == { f \in fs : SM_GroupKey(f) = combo }

\* session_files[:k] of a group sorted by st_mtime, newest first
SM_Newest(S, k) == { f \in S : Cardinality({ g \in S : g.seq > f.seq }) < k }

\* a set of files as the list sorted by st_mtime, newest first
RECURSIVE NewestFirst(_)
NewestFirst(S) ==
    IF S = {} THEN <<>>
    ELSE LET f == CHOOSE g \in S : \A h \in S : h.seq <= g.seq
         IN  <<f>> \o NewestFirst(S \ {f})

RECURSIVE SumStint(_)
SumStint(ts) == IF ts = <<>> THEN 0 ELSE Head(ts).stint_time + SumStint(Tail(ts))

\* StorageManager._average_telemetry (the stint_time of it)
SM_AverageTelemetry(telemetry_points) ==
    [stint_time |-> SumStint(telemetry_points) \div Len(telemetry_points)]

\* the samples one pit entry contributes: lap 1, mid-stint, pre-pit
SM_PitEntrySamples(telemetry, pit_entry) ==
    LET total_laps == pit_entry.total_laps
        sample_laps == << 1, total_laps \div 2, total_laps >>
        At(lap_num) == SelectSeq(telemetry, LAMBDA t : t.lap_num = lap_num)
        One(lap_num) ==
            IF At(lap_num) = <<>> THEN <<>>
            ELSE << [lap |-> lap_num,
                     stint_time |-> SM_AverageTelemetry(At(lap_num)).stint_time,
                     target_temps |-> pit_entry.temps] >>
    IN  IF total_laps = 0 THEN <<>>
        ELSE One(sample_laps[1]) \o One(sample_laps[2]) \o One(sample_laps[3])

RECURSIVE SM_AllPitEntrySamples(_, _)
SM_AllPitEntrySamples(telemetry, pit_entries) ==
    IF pit_entries = <<>> THEN <<>>
    ELSE SM_PitEntrySamples(telemetry, Head(pit_entries))
             \o SM_AllPitEntrySamples(telemetry, Tail(pit_entries))

\* StorageManager._extract_synthetic_samples
SM_ExtractSyntheticSamples(session) ==
    IF session.telemetry = <<>> \/ session.pit_entries = <<>> THEN <<>>
    ELSE SM_AllPitEntrySamples(session.telemetry, session.pit_entries)

\* sorted(samples, key=stint_time): a stable sort
RECURSIVE SortByStintTime(_)
SortByStintTime(samples) ==
    IF samples = <<>> THEN <<>>
    ELSE LET keys == { samples[i].stint_time : i \in DOMAIN samples }
             k == CHOOSE x \in keys : \A y \in keys : x <= y
         IN  SelectSeq(samples, LAMBDA x : x.stint_time = k)
                 \o SortByStintTime(SelectSeq(samples, LAMBDA x : x.stint_time # k))

\* int(i * step) with step = n / 100 computed in doubles: for these (n, i)
\* the product falls just under the integer i * n / 100
FloatShortfall(n, i) ==
    IF \/ (n = 114 /\ i = 50)
       \/ (n = 116 /\ i \in {25, 50})
       \/ (n = 140 /\ i \in {45, 85, 90})
       \/ (n = 164 /\ i = 75)
    THEN 1 ELSE 0

\* a selection that keeps the first max_count samples
SM_SelectIndexFirst(i, n, max_count) == i

\* int(i * step), step = len(sorted_samples) / max_count; 0-based
SM_SelectIndex(i, n, max_count) == (i * n) \div max_count - FloatShortfall(n, i)

\* the positions (1-based) of the samples kept out of n sorted ones
SM_SelectedPositions(n, max_count) ==
    [j \in 1..max_count |-> SM_SelectIndex(j - 1, n, max_count) + 1]

\* StorageManager._select_representative_samples
SM_SelectRepresentativeSamples(samples, max_count) ==
    IF Len(samples) <= max_count THEN samples
    ELSE LET sorted_samples == SortByStintTime(samples)
             positions == SM_SelectedPositions(Len(samples), max_count)
         IN  [j \in 1..max_count |-> sorted_samples[positions[j]]]

\* StorageManager._synthesize_session: the new store, whether it succeeded,
\* and the merged list before the cap
SM_SynthesizeSession(synth, f, combo) ==
    IF ~f.ok
    THEN [ok |-> FALSE, data |-> synth, merged |-> <<>>]
    ELSE LET old == IF combo \in DOMAIN synth THEN synth[combo] ELSE <<>>
             merged == old \o SM_ExtractSyntheticSamples(f)
             kept == IF Len(merged) > MaxSyntheticSamples
                     THEN SM_SelectRepresentativeSamples(merged, MaxSyntheticSamples)
                     ELSE merged
         IN  [ok |-> TRUE, data |-> (combo :> kept) @@ synth, merged |-> merged]

\* the files _cleanup_sessions processes and finds old enough
SM_SessionsToDelete(fs, now) ==
    { f \in fs : /\ f \notin SM_Newest(SM_Group(fs, SM_GroupKey(f)), MinSessionsPerCombo)
                 /\ now - f.day > SessionRetentionDays }

\* the loop of _cleanup_sessions over the old files: each is synthesized,
\* then unlinked
RECURSIVE SM_SynthesizeAll(_, _)
SM_SynthesizeAll(queue, synth) ==
    IF queue = <<>> THEN [data |-> synth, synthesized |-> {}, failed |-> {}]
    ELSE LET r == SM_SynthesizeSession(synth, Head(queue), SM_GroupKey(Head(queue)))
             rest == SM_SynthesizeAll(Tail(queue), r.data)
         IN  [data |-> rest.data,
              synthesized |-> rest.synthesized \cup (IF r.ok THEN {Head(queue)} ELSE {}),
              failed |-> rest.failed \cup (IF r.ok THEN {} ELSE {Head(queue)})]

\* StorageManager._cleanup_models
SM_ModelsToDelete(models, now) == { m \in models : now - m.day > ModelRetentionDays }

(***************************************************************************)
(* StorageManager.check_and_cleanup                                        *)
(***************************************************************************)
SM_CheckAndCleanup(force) ==
    LET stats == SM_StorageStats(files, model_files, synth_data)
    IN  IF ~force /\ ~stats.needs_cleanup
        THEN /\ lastCleanup' = << [cleaned |-> FALSE, force |-> force, before |-> files,
                                   deleted |-> {}, synthesized |-> {}, failed |-> {},
                                   now |-> today,
                                   before_kb |-> stats.total, after_kb |-> stats.total] >>
             /\ UNCHANGED <<files, model_files, synth_data>>
        ELSE LET doomed == SM_SessionsToDelete(files, today)
                 r == SM_SynthesizeAll(NewestFirst(doomed), synth_data)
                 models == model_files \ SM_ModelsToDelete(model_files, today)
                 new_stats == SM_StorageStats(files \ doomed, models, r.data)
             IN  /\ files' = files \ doomed
                 /\ synth_data' = r.data
                 /\ model_files' = models
                 /\ lastCleanup' = << [cleaned |-> TRUE, force |-> force, before |-> files,
                                       deleted |-> doomed, synthesized |-> r.synthesized,
                                       failed |-> r.failed, now |-> today,
                                       before_kb |-> stats.total,
                                       after_kb |-> new_stats.total] >>

(***************************************************************************)
(* Sessions as the collector saves them, for the storage layer: three laps *)
(* of telemetry and k pit entries after four laps, so 3 * k samples.       *)
(***************************************************************************)
StintTelemetry == << [lap_num |-> 1, stint_time |-> 90],
                     [lap_num |-> 2, stint_time |-> 180],
                     [lap_num |-> 4, stint_time |-> 360] >>

StintSession(car, track, k) ==
    [car |-> car, track |-> track, telemetry |-> StintTelemetry,
     pit_entries |-> [i \in 1..k |-> [total_laps |-> 4, temps |-> 180000 + 100 * i]]]

ModelSizes == {500}

(***************************************************************************)
(* The state after construction.                                           *)
(***************************************************************************)
Init ==
    /\ current_temps = UniformTemps(AmbientBase)
    /\ last_update_time = 0
    /\ pmTrace = <<>>
    /\ resetBase = AmbientBase
    /\ floorTemp = AmbientBase
    /\ ceilTemp = TempCeiling
    /\ lastTel = <<>>
    /\ is_recording = FALSE
    /\ current_session = <<>>
    /\ telemetry_buffer = <<>>
    /\ sampleDue = TRUE
    /\ last_pit_road_state = FALSE
    /\ prevTick = <<>>
    /\ edgeTemps = <<>>
    /\ files = {}
    /\ nextSeq = 0
    /\ today = 0
    /\ current_car = <<>>
    /\ current_track = <<>>
    /\ loaded_models = [k \in {} |-> 0]
    /\ current_predictions = UniformTemps(700)
    /\ temp_history = EmptyHistory
    /\ last_actual_temps = [tire \in {} |-> 0]
    /\ blendIn = <<>>
    /\ calPre = <<>>
    /\ predCalls = 0
    /\ duePredicts = 0
    /\ confidenceOut = <<>>
    /\ sessionCalibrated = FALSE
    /\ sessionsStarted = 0
    /\ model_files = {}
    /\ synth_data = [k \in {} |-> <<>>]
    /\ lastCleanup = <<>>
    /\ lastSynth = <<>>
    /\ synthOps = 0
    /\ corner_patterns = <<>>
    /\ lastMerge = <<>>
    /\ car_patterns = [c \in {} |-> 0]
    /\ track_patterns = [c \in {} |-> 0]
    /\ patterns_files = [car |-> [c \in {} |-> 0], track |-> [c \in {} |-> 0]]
    /\ arrived = [stint |-> [c \in {} |-> <<>>], ranges |-> [c \in {} |-> <<>>],
                  curves |-> [c \in {} |-> <<>>]]
    /\ lastDetect = <<>>
    /\ learnCalls = 0
    /\ startedAs = [k \in {} |-> 0]
    /\ learnedSeqs = {}
    /\ lastLookup = <<>>
    /\ lastLoad = <<>>
    /\ persisted_models = [k \in {} |-> 0]
    /\ train_result = <<>>
    /\ trainCalls = 0
    /\ collected = 0
    /\ savedCounts = [k \in {} |-> 0]
    /\ current_trends = [tire \in {} |-> "unknown"]
    /\ trendIn = <<>>
    /\ training_queue = <<>>
    /\ threads = <<>>
    /\ should_stop_training = FALSE
    /\ callPc = "idle"
    /\ raised = ""
    /\ lastCall = ""
    /\ lastEnd = <<>>
    /\ enqueuedLog = <<>>
    /\ dequeuedLog = <<>>
    /\ dequeuedAtStop = 0
    /\ lastQueue = <<>>
    /\ enqueueCalls = 0

vars == <<physVars, collVars, dirVars, predVars, storVars, otherVars, trainVars, trendVars>>

(***************************************************************************)
(* SpecPhysics: a TirePhysicsModel on its own.                             *)
(***************************************************************************)
PhysicsPredict ==
    /\ UNCHANGED <<otherVars, trainVars, trendVars>>
    /\ \E t \in Telemetries : PM_Predict(t)
    /\ UNCHANGED <<collVars, dirVars, predVars, storVars>>

PhysicsReset ==
    /\ UNCHANGED <<otherVars, trainVars, trendVars>>
    /\ \E b \in ResetBases : PM_Reset(b)
    /\ UNCHANGED <<collVars, dirVars, predVars, storVars>>

PhysicsCalibrate ==
    /\ UNCHANGED <<otherVars, trainVars, trendVars>>
    /\ \E a \in ActualTemps : PM_Calibrate(a)
    /\ UNCHANGED <<collVars, dirVars, predVars, storVars>>

NextPhysics == PhysicsPredict \/ PhysicsReset \/ PhysicsCalibrate

SpecPhysics == Init /\ [][NextPhysics]_vars

(***************************************************************************)
(* SpecCollector: a TireDataCollector fed the simulator's snapshots.       *)
(***************************************************************************)
CollectorStart ==
    /\ UNCHANGED <<otherVars, trainVars, trendVars>>
    /\ sessionsStarted < MaxSessions
    /\ sessionsStarted' = sessionsStarted + 1
    /\ \E c \in CarNames, k \in TrackNames, size \in SessionSizes :
           DC_StartSession(c, k, size)
    /\ UNCHANGED <<current_car, current_track, loaded_models, current_predictions,
                   temp_history, last_actual_temps, blendIn, calPre, predCalls,
                   duePredicts, confidenceOut, sessionCalibrated>>
    /\ UNCHANGED <<physVars, storVars>>

CollectorSample ==
    /\ UNCHANGED <<otherVars, trainVars, trendVars>>
    /\ \E ir \in FlatSnapshots : DC_CollectSample(ir)
    /\ UNCHANGED <<physVars, predVars, storVars>>

CollectorTick ==
    /\ UNCHANGED <<otherVars, trainVars, trendVars>>
    /\ DC_SecondPasses
    /\ UNCHANGED <<physVars, predVars, storVars>>

CollectorEnd ==
    /\ UNCHANGED <<otherVars, trainVars, trendVars>>
    /\ \E size \in SessionSizes : DC_EndSession(size)
    /\ UNCHANGED <<physVars, predVars, storVars>>

NextCollector == CollectorStart \/ CollectorSample \/ CollectorTick \/ CollectorEnd

SpecCollector == Init /\ [][NextCollector]_vars

(***************************************************************************)
(* SpecPredict: a TirePredictor in a session.                              *)
(***************************************************************************)
PredictTelemetries == { t \in Telemetries : t.timestamp # 0 /\ t.track_temp \in {50, 100} }

PredictorStart ==
    /\ UNCHANGED <<otherVars, trainVars>>
    /\ \E m \in LoadableModels, size \in SessionSizes :
           TP_StartSession(<<"A">>, <<"C">>, m, size)
    /\ UNCHANGED storVars

PredictorPredict ==
    /\ UNCHANGED <<otherVars, trainVars>>
    /\ \E t \in PredictTelemetries, pat \in PatternOuts, out \in MlOutputs :
           TP_Predict(t, pat, out)
    /\ UNCHANGED storVars

PredictorCalibrate ==
    /\ UNCHANGED <<otherVars, trainVars, trendVars>>
    /\ \E a \in PartialActualTemps : TP_CalibrateWithActual(a)
    /\ UNCHANGED storVars

NextPredict == PredictorStart \/ PredictorPredict \/ PredictorCalibrate

SpecPredict == Init /\ [][NextPredict]_vars

(***************************************************************************)
(* SpecConfidence: one predictor without models over two sessions, with    *)
(* calibrations in and between them.                                       *)
(***************************************************************************)
ConfStart ==
    /\ UNCHANGED <<otherVars, trainVars>>
    /\ sessionsStarted < MaxConfSessions
    /\ \E size \in SessionSizes :
           TP_StartSessionEffect(<<"A">>, <<"C">>, [k \in {} |-> 0], size)
    /\ UNCHANGED storVars

ConfPredict ==
    /\ UNCHANGED <<otherVars, trainVars>>
    /\ \E t \in PredictTelemetries, pat \in PatternOuts, out \in MlOutputs :
           TP_Predict(t, pat, out)
    /\ UNCHANGED storVars

ConfCalibrate ==
    /\ UNCHANGED <<otherVars, trainVars, trendVars>>
    /\ \E a \in ActualTemps : TP_CalibrateWithActual(a)
    /\ UNCHANGED storVars

NextConfidence == ConfStart \/ ConfPredict \/ ConfCalibrate

SpecConfidence == Init /\ [][NextConfidence]_vars

(***************************************************************************)
(* SpecTrends: one predictor over enough predict calls for the trends to   *)
(* be known.                                                               *)
(***************************************************************************)
TrendModels == { [k \in ZoneKeys |-> 10], [k \in {"LF"} \X Zones |-> 20] }

TrendStart ==
    /\ \E m \in TrendModels, size \in SessionSizes :
           TP_StartSession(<<"A">>, <<"C">>, m, size)
    /\ UNCHANGED <<storVars, otherVars, trainVars>>

TrendPredict ==
    /\ predCalls < MaxTrendPredicts
    /\ \E out \in MlOutputs :
           TP_PredictEffect(Tel(1000, 800, 0, 200, 500, 100, 0, NoShock),
                            PL_GetPatternAdjustment(UniformTemps(0), 0, UniformTemps(0), 0),
                            out)
    /\ UNCHANGED <<storVars, otherVars, trainVars>>

NextTrends == TrendStart \/ TrendPredict

SpecTrends == Init /\ [][NextTrends]_vars

(***************************************************************************)
(* SpecStorage: the data directory over the months, with a StorageManager. *)
(* A session file is written whole, or truncated when the writer is        *)
(* interrupted (it is written in place).                                   *)
(***************************************************************************)
StoredCombos == { << <<"a", "b">>, <<"C">> >>, << <<"A">>, <<"b", "c">> >> }

StorageSessionSaved ==
    /\ UNCHANGED <<otherVars, trainVars, trendVars>>
    /\ nextSeq < MaxFiles
    /\ \E combo \in StoredCombos, ok \in BOOLEAN, size \in SessionSizes :
           /\ ok \/ Cardinality({ f \in files : ~f.ok }) < MaxTruncated
           /\ files' = files \cup
               { [DC_SessionFile(StintSession(DC_SanitizeName(combo[1]),
                                              DC_SanitizeName(combo[2]), 1),
                                 nextSeq + 1, today, size) EXCEPT !.ok = ok] }
    /\ nextSeq' = nextSeq + 1
    /\ lastCleanup' = <<>>
    /\ UNCHANGED <<today, model_files, synth_data, lastSynth, synthOps>>
    /\ UNCHANGED <<physVars, collVars, predVars>>

\* TireModelTrainer._save_model writes (or overwrites) car_LF_L.pkl
StorageModelSaved ==
    /\ UNCHANGED <<otherVars, trainVars, trendVars>>
    /\ \E size \in ModelSizes :
           model_files' = { [car |-> <<"a">>, key |-> <<"LF", "L">>, day |-> today,
                            size |-> size] }
    /\ model_files' # model_files
    /\ lastCleanup' = <<>>
    /\ UNCHANGED <<files, nextSeq, today, synth_data, lastSynth, synthOps>>
    /\ UNCHANGED <<physVars, collVars, predVars>>

\* a month goes by, until the longest retention period is over
MonthPasses ==
    /\ UNCHANGED <<otherVars, trainVars, trendVars>>
    /\ today <= ModelRetentionDays
    /\ today' = today + 31
    /\ lastCleanup' = <<>>
    /\ UNCHANGED <<files, nextSeq, model_files, synth_data, lastSynth, synthOps>>
    /\ UNCHANGED <<physVars, collVars, predVars>>

StorageCleanup ==
    /\ UNCHANGED <<otherVars, trainVars, trendVars>>
    /\ \E force \in BOOLEAN : SM_CheckAndCleanup(force)
    /\ UNCHANGED <<nextSeq, today, lastSynth, synthOps>>
    /\ UNCHANGED <<physVars, collVars, predVars>>

NextStorage == StorageSessionSaved \/ StorageModelSaved \/ MonthPasses \/ StorageCleanup

SpecStorage == Init /\ [][NextStorage]_vars

(***************************************************************************)
(* SpecSynth: _synthesize_session applied to sessions of no, one and       *)
(* nineteen pit entries, whole or truncated.                               *)
(***************************************************************************)
SynthCombos == { << <<"a">>, <<"c">> >>, << <<"a", "b">>, <<"c">> >> }
PitEntryCounts == {0, 1, 19}

SynthesizeSession ==
    /\ UNCHANGED <<otherVars, trainVars, trendVars>>
    /\ synthOps < MaxSynthOps
    /\ synthOps' = synthOps + 1
    /\ \E combo \in SynthCombos, k \in PitEntryCounts, ok \in BOOLEAN, size \in SessionSizes :
           LET f == [DC_SessionFile(StintSession(combo[1], combo[2], k),
                                    0, today, size) EXCEPT !.ok = ok]
               r == SM_SynthesizeSession(synth_data, f, combo)
           IN  /\ synth_data' = r.data
               /\ lastSynth' = << [ok |-> r.ok, combo |-> combo, merged |-> r.merged,
                                   positions |->
                                       IF Len(r.merged) > MaxSyntheticSamples
                                       THEN SM_SelectedPositions(Len(r.merged),
                                                                 MaxSyntheticSamples)
                                       ELSE <<>>] >>
    /\ UNCHANGED <<model_files, lastCleanup>>
    /\ UNCHANGED <<physVars, collVars, dirVars, predVars>>

NextSynth == SynthesizeSession

SpecSynth == Init /\ [][NextSynth]_vars

(***************************************************************************)
(* TirePatternLearner._merge_corner_patterns.  lap_pct and avg_lateral_g   *)
(* in thousandths, avg_speed in km/h; the running averages are cut to the  *)
(* unit.                                                                   *)
(***************************************************************************)
CornerMergeWindow == 50

\* a merge that takes corners for similar only within 0.03 of lap distance
PL_IsSimilarCornerNarrow(existing_corner, new_corner) ==
    Abs(existing_corner.lap_pct - new_corner.lap_pct) < 30

\* a merge that never finds a similar corner
PL_IsSimilarCornerNever(existing_corner, new_corner) == FALSE

\* abs(existing_corner['lap_pct'] - new_corner['lap_pct']) < 0.05
PL_IsSimilarCorner(existing_corner, new_corner) ==
    Abs(existing_corner.lap_pct - new_corner.lap_pct) < CornerMergeWindow

\* the stored corner after it absorbed new_corner
PL_AveragedCorner(existing_corner, new_corner) ==
    LET n == existing_corner.count
    IN  [existing_corner EXCEPT
            !.avg_lateral_g = (existing_corner.avg_lateral_g * n + new_corner.avg_lateral_g)
                                  \div (n + 1),
            !.avg_speed = (existing_corner.avg_speed * n + new_corner.avg_speed) \div (n + 1),
            !.count = n + 1]

\* one pass of the outer loop: merge into the first similar corner, or append
PL_MergeCorner(existing, new_corner) ==
    LET similar == { i \in DOMAIN existing : PL_IsSimilarCorner(existing[i], new_corner) }
    IN  IF similar = {}
        THEN Append(existing, [new_corner EXCEPT !.count = 1])
        ELSE LET first == CHOOSE i \in similar : \A j \in similar : i <= j
             IN  [existing EXCEPT ![first] = PL_AveragedCorner(existing[first], new_corner)]

RECURSIVE PL_MergeCornerPatterns(_, _)
PL_MergeCornerPatterns(existing, new_corners) ==
    IF new_corners = <<>> THEN existing
    ELSE PL_MergeCornerPatterns(PL_MergeCorner(existing, Head(new_corners)),
                                Tail(new_corners))

\* the corners a session's pattern can bring: its count field is whatever
\* the extraction left there
Corner(pct, g, speed) == [lap_pct |-> pct, avg_lateral_g |-> g, avg_speed |-> speed, count |-> 0]
CornerObservations ==
    { Corner(100, 1200, 100), Corner(120, 1800, 161), Corner(160, 1500, 130),
      Corner(500, 2000, 90) }
NewCornerLists ==
    { <<c>> : c \in CornerObservations }
        \cup { <<Corner(100, 1200, 100), Corner(120, 1800, 161)>>,
               <<Corner(160, 1500, 130), Corner(120, 1800, 161)>> }

RECURSIVE SumCounts(_)
SumCounts(corners) == IF corners = <<>> THEN 0 ELSE Head(corners).count + SumCounts(Tail(corners))

(***************************************************************************)
(* SpecCorners: the corner patterns of one car@track combo over sessions.  *)
(***************************************************************************)
MergeCornerPatterns ==
    /\ \E new_corners \in NewCornerLists :
           /\ SumCounts(corner_patterns) + Len(new_corners) <= MaxCornerObs
           /\ corner_patterns' = PL_MergeCornerPatterns(corner_patterns, new_corners)
           /\ lastMerge' = << [before |-> corner_patterns, new_corners |-> new_corners] >>
    /\ UNCHANGED <<patternVars, keyVars, physVars, collVars, dirVars, predVars, storVars, trainVars, countVars, trendVars, lifeVars>>

NextCorners == MergeCornerPatterns

SpecCorners == Init /\ [][NextCorners]_vars

(***************************************************************************)
(* TireModelTrainer.train_models.  The training set is the list of         *)
(* (feature, target) pairs of the car's sessions, written as runs of       *)
(* samples with the same target readings; an array is modelled by its      *)
(* length, a fitted model by its validation MAE (tenths of a degree).      *)
(***************************************************************************)
MinSamplesForTraining == 50

AllTargets == [k \in ZoneKeys |-> 150]
\* pit entries whose LF readings are missing or zero
NoLFTargets == [k \in ZoneKeys |-> IF k[1] = "LF" THEN 0 ELSE 150]

TrainingSets ==
    { << [count |-> 49, target |-> AllTargets] >>,
      << [count |-> 50, target |-> AllTargets] >>,
      << [count |-> 49, target |-> AllTargets], [count |-> 1, target |-> NoLFTargets] >>,
      << [count |-> 55, target |-> AllTargets], [count |-> 5, target |-> NoLFTargets] >> }

\* the validation MAE the fit of one call arrives at
ValMaes == {8, 12}

RECURSIVE MT_SampleCount(_)
\* len(features)
MT_SampleCount(samples) ==
    IF samples = <<>> THEN 0 ELSE Head(samples).count + MT_SampleCount(Tail(samples))

RECURSIVE MT_ExtractZoneTargets(_, _)
\* the length of the array _extract_zone_targets returns: the readings > 0
\* (the others are dropped from it)
MT_ExtractZoneTargets(samples, key) ==
    IF samples = <<>> THEN 0
    ELSE (IF Head(samples).target[key] > 0 THEN Head(samples).count ELSE 0)
             + MT_ExtractZoneTargets(Tail(samples), key)

\* _train_single_model: <<>> for (None, {'error': ...}), else <<metrics>>.
\* valid_mask has the length of targets; features[valid_mask] raises
\* IndexError when that is not the length of features
MT_TrainSingleModel(n_features, n_targets, mae) ==
    IF n_targets # n_features THEN <<>>
    ELSE IF n_features < MinSamplesForTraining THEN <<>>
    ELSE << [val_mae |-> mae, n_samples |-> n_features] >>

\* a comparison that always prefers the new model
MT_IsModelBetterAlways(models, key, new_metrics) == TRUE

\* _is_model_better
MT_IsModelBetter(models, key, new_metrics) ==
    IF key \notin DOMAIN models THEN TRUE
    ELSE IF ~models[key].readable THEN TRUE
    ELSE new_metrics.val_mae < models[key].val_mae

\* the zones for which train_models gets a model from _train_single_model
MT_TrainedZones(samples, mae) ==
    IF MT_SampleCount(samples) < MinSamplesForTraining THEN {}
    ELSE { key \in ZoneKeys :
             /\ ~(MT_ExtractZoneTargets(samples, key) < MinSamplesForTraining)
             /\ MT_TrainSingleModel(MT_SampleCount(samples),
                                    MT_ExtractZoneTargets(samples, key), mae) # <<>> }

\* the zones whose model file train_models writes
MT_SavedZones(models, samples, force_retrain, mae) ==
    { key \in MT_TrainedZones(samples, mae) :
        force_retrain \/ MT_IsModelBetter(models, key, [val_mae |-> mae]) }

MT_TrainModelsEffect(samples, force_retrain, mae) ==
    /\ trainCalls' = trainCalls + 1
    /\ LET saved == MT_SavedZones(persisted_models, samples, force_retrain, mae)
       IN  /\ persisted_models' =
                  [key \in DOMAIN persisted_models \cup saved |->
                      IF key \in saved THEN [val_mae |-> mae, readable |-> TRUE]
                      ELSE persisted_models[key]]
           /\ train_result' =
                  << [success |-> ~(MT_SampleCount(samples) < MinSamplesForTraining),
                      samples |-> MT_SampleCount(samples),
                      models_trained |-> MT_TrainedZones(samples, mae),
                      models_improved |-> saved,
                      force_retrain |-> force_retrain,
                      val_mae |-> mae,
                      training_set |-> samples,
                      models_before |-> persisted_models] >>

MT_TrainModels(samples, force_retrain, mae) ==
    /\ trainCalls < MaxTrainCalls
    /\ MT_TrainModelsEffect(samples, force_retrain, mae)

\* a model file that can no longer be unpickled
CorruptibleKeys == { <<"LF", "L">>, <<"RR", "R">> }
MT_FileCorrupted(key) ==
    /\ key \in DOMAIN persisted_models
    /\ persisted_models[key].readable
    /\ persisted_models' = [persisted_models EXCEPT ![key].readable = FALSE]
    /\ train_result' = <<>>
    /\ UNCHANGED trainCalls

(***************************************************************************)
(* SpecTrainer: train_models calls for one car.                            *)
(***************************************************************************)
TrainerTrain ==
    /\ \E samples \in TrainingSets, force_retrain \in BOOLEAN, mae \in ValMaes :
           MT_TrainModels(samples, force_retrain, mae)
    /\ UNCHANGED <<physVars, collVars, dirVars, predVars, storVars, learnVars, countVars, trendVars, lifeVars>>

TrainerFileCorrupted ==
    /\ \E key \in CorruptibleKeys : MT_FileCorrupted(key)
    /\ UNCHANGED <<physVars, collVars, dirVars, predVars, storVars, learnVars, countVars, trendVars, lifeVars>>

NextTrainer == TrainerTrain \/ TrainerFileCorrupted

SpecTrainer == Init /\ [][NextTrainer]_vars

(***************************************************************************)
(* The session file as JSON text and its reload (json.dump in              *)
(* _save_session, json.load in learn_from_session and                      *)
(* _load_training_data).  The text is the sequence of its tokens.          *)
(***************************************************************************)
JsonNum(n) == [t |-> "num", v |-> n]
JsonObject(values) == << [t |-> "{"] >> \o values \o << [t |-> "}"] >>

JsonSample(sample) == JsonObject(<< JsonNum(sample.lap_num), JsonNum(sample.stint_time) >>)
JsonPitEntry(entry) == JsonObject(<< JsonNum(entry.total_laps), JsonNum(entry.temps) >>)

RECURSIVE JsonTelemetry(_)
JsonTelemetry(list) ==
    IF list = <<>> THEN <<>> ELSE JsonSample(Head(list)) \o JsonTelemetry(Tail(list))

RECURSIVE JsonPitEntries(_)
JsonPitEntries(list) ==
    IF list = <<>> THEN <<>> ELSE JsonPitEntry(Head(list)) \o JsonPitEntries(Tail(list))

\* len() of the list json.load builds from the text of a list of objects
JsonLoadedLen(text) ==
    Cardinality({ i \in DOMAIN text : text[i].t = "}" })

\* the session dict a reader gets from the file
PL_LoadSession(f) ==
    [telemetry_len |-> JsonLoadedLen(JsonTelemetry(f.telemetry)),
     pit_entries_len |-> JsonLoadedLen(JsonPitEntries(f.pit_entries)),
     metadata |-> [total_samples |-> f.total_samples, pit_entries |-> f.n_pit_entries]]

(***************************************************************************)
(* SpecRoundTrip: a DataCollector over sessions long enough for the        *)
(* buffer to be flushed.                                                   *)
(***************************************************************************)
\* what a step of the collector does to the sample counts
CountStep(appended) ==
    /\ savedCounts' = IF nextSeq' # nextSeq
                      THEN [k \in DOMAIN savedCounts \cup {nextSeq'} |->
                               IF k = nextSeq' THEN collected ELSE savedCounts[k]]
                      ELSE savedCounts
    /\ collected' = IF current_session' = <<>> \/ nextSeq' # nextSeq THEN 0
                    ELSE collected + appended

\* the snapshot of the n-th second after the session time 180
SnapshotAt(p, n) == [FlatSnapshot(p, 180000) EXCEPT !.session_time = 180 + n]

\* sessions are started until one has been saved
RoundTripStart ==
    /\ files = {}
    /\ \E c \in {<<"A">>}, k \in {<<"C">>}, size \in SessionSizes : DC_StartSession(c, k, size)
    /\ CountStep(0)
    /\ UNCHANGED <<physVars, predVars, storVars, learnVars, trainVars, trendVars, lifeVars>>

\* the car may be on pit road during the first MaxPitRoadTicks samples of a
\* session
RoundTripSample ==
    /\ collected + SumOver(savedCounts, DOMAIN savedCounts) < MaxSamples
    /\ is_recording /\ sampleDue
    /\ UNCHANGED dirVars
    /\ \E ir \in IF DC_SessionTicks < MaxPitRoadTicks
                  THEN { SnapshotAt(FALSE, DC_SessionTicks), SnapshotAt(TRUE, DC_SessionTicks),
                         NestedSnapshot }
                  ELSE { SnapshotAt(FALSE, DC_SessionTicks) } :
           /\ DC_CollectSampleEffect(ir)
           /\ CountStep(IF ir.kind = "nested" THEN 0 ELSE 1)
    /\ UNCHANGED <<physVars, predVars, storVars, learnVars, trainVars, trendVars, lifeVars>>

RoundTripTick ==
    /\ DC_SecondPasses
    /\ UNCHANGED <<physVars, predVars, storVars, learnVars, trainVars, countVars, trendVars, lifeVars>>

RoundTripEnd ==
    /\ \E size \in SessionSizes : DC_EndSession(size)
    /\ CountStep(0)
    /\ UNCHANGED <<physVars, predVars, storVars, learnVars, trainVars, trendVars, lifeVars>>

NextRoundTrip == RoundTripStart \/ RoundTripSample \/ RoundTripTick \/ RoundTripEnd

SpecRoundTrip == Init /\ [][NextRoundTrip]_vars

(***************************************************************************)
(* TirePredictor.end_session.  The module does not import Path, so the     *)
(* call Path(session_file) raises NameError once the collector has         *)
(* returned the path of the saved file; nothing in end_session catches it. *)
(* io_ok tells whether _save_session can write the file.                   *)
(***************************************************************************)
EndRecord(persisted, checked) ==
    << [persisted |-> persisted, learned |-> FALSE, enqueued |-> FALSE,
        storage_checked |-> checked] >>

TP_EndSession(size, io_ok) ==
    /\ UNCHANGED <<current_predictions, temp_history, last_actual_temps, blendIn, calPre,
                   predCalls, duePredicts, confidenceOut, sessionCalibrated, sessionsStarted, sampleDue, last_pit_road_state, prevTick,
                   edgeTemps, today, lastSynth, synthOps>>
    /\ IF current_car = <<>>
       THEN \* if not self.current_car: return
            /\ raised' = ""
            /\ lastEnd' = <<>>
            /\ UNCHANGED <<is_recording, current_session, telemetry_buffer, files, nextSeq,
                           current_car, current_track, loaded_models,
                           model_files, synth_data, lastCleanup>>
       ELSE IF is_recording /\ current_session # <<>>
       THEN IF io_ok
            THEN \* the collector saves the file and stops; Path(...) raises
                 /\ DC_EndSessionEffect(size)
                 /\ raised' = "NameError"
                 /\ lastEnd' = EndRecord(TRUE, FALSE)
                 /\ UNCHANGED <<current_car, current_track, loaded_models,
                                model_files, synth_data, lastCleanup>>
            ELSE \* _save_session raises after the flush, before the reset
                 /\ current_session' = << DC_Flushed(current_session[1], telemetry_buffer) >>
                 /\ telemetry_buffer' = <<>>
                 /\ raised' = "OSError"
                 /\ lastEnd' = EndRecord(FALSE, FALSE)
                 /\ UNCHANGED <<is_recording, files, nextSeq,
                                current_car, current_track, loaded_models,
                                model_files, synth_data, lastCleanup>>
       ELSE \* no session file: the storage check and the reset
            /\ IF SM_StorageStats(files, model_files, synth_data).needs_cleanup
               THEN SM_CheckAndCleanup(FALSE)
               ELSE UNCHANGED <<files, model_files, synth_data, lastCleanup>>
            /\ current_car' = <<>>
            /\ current_track' = <<>>
            /\ loaded_models' = [k \in {} |-> 0]
            /\ raised' = ""
            /\ lastEnd' = EndRecord(FALSE, TRUE)
            /\ UNCHANGED <<is_recording, current_session, telemetry_buffer, nextSeq>>

(***************************************************************************)
(* TirePredictor._queue_training and the training worker.  The blocks      *)
(* under training_lock are single steps; the owner's thread is between the *)
(* two statements of _queue_training when callPc = "queue_check".  A       *)
(* thread is alive until its function has returned.                        *)
(***************************************************************************)
InQueue(queue, car) == \E i \in DOMAIN queue : queue[i] = car

\* an append without the membership test
QT_EnqueueAlways(queue, car) == Append(queue, car)

\* if car not in self.training_queue: self.training_queue.append(car)
QT_Enqueue(queue, car) == IF InQueue(queue, car) THEN queue ELSE Append(queue, car)

IsAlive(i) == threads[i].pc # "dead"

QT_Locked(car) ==
    /\ callPc = "idle"
    /\ enqueueCalls < MaxEnqueues
    /\ enqueueCalls' = enqueueCalls + 1
    /\ training_queue' = QT_Enqueue(training_queue, car)
    /\ enqueuedLog' = enqueuedLog \o SubSeq(training_queue', Len(training_queue) + 1,
                                             Len(training_queue'))
    /\ lastQueue' = << [before |-> training_queue, car |-> car, after |-> training_queue'] >>
    /\ callPc' = "queue_check"
    /\ UNCHANGED <<threads, dequeuedLog, raised, lastCall, lastEnd, stopVars>>

\* if not self.training_thread or not self.training_thread.is_alive()
QT_StartThread ==
    /\ callPc = "queue_check"
    /\ callPc' = "idle"
    /\ threads' = IF threads = <<>> \/ ~IsAlive(Len(threads))
                  THEN Append(threads, [pc |-> "test", car |-> <<>>])
                  ELSE threads
    /\ UNCHANGED <<training_queue, enqueuedLog, dequeuedLog, lastQueue, enqueueCalls,
                   raised, lastCall, lastEnd, stopVars>>

\* while not self.should_stop_training
TW_TestStop(i) ==
    /\ threads[i].pc = "test"
    /\ threads' = [threads EXCEPT ![i].pc = IF should_stop_training THEN "exit" ELSE "lock"]
    /\ UNCHANGED <<training_queue, enqueuedLog, dequeuedLog, lastQueue, enqueueCalls,
                   callVars, stopVars>>

\* with self.training_lock: break on an empty queue, else pop(0)
TW_Dequeue(i) ==
    /\ threads[i].pc = "lock"
    /\ IF training_queue = <<>>
       THEN /\ threads' = [threads EXCEPT ![i].pc = "exit"]
            /\ UNCHANGED <<training_queue, dequeuedLog>>
       ELSE /\ threads' = [threads EXCEPT ![i] = [pc |-> "train",
                                                  car |-> << Head(training_queue) >>]]
            /\ training_queue' = Tail(training_queue)
            /\ dequeuedLog' = Append(dequeuedLog, Head(training_queue))
    /\ UNCHANGED <<enqueuedLog, lastQueue, enqueueCalls, callVars, stopVars>>

\* the sessions on disk are those of car "A": train_models finds 50 samples
\* for it and none for another car
TW_TrainingSet(car) ==
    IF car = <<"A">> THEN << [count |-> 50, target |-> AllTargets] >> ELSE <<>>

\* self.model_trainer.train_models(car); time.sleep(1)
TW_Train(i) ==
    /\ threads[i].pc = "train"
    /\ \E mae \in ValMaes : MT_TrainModelsEffect(TW_TrainingSet(threads[i].car[1]), FALSE, mae)
    /\ threads' = [threads EXCEPT ![i] = [pc |-> "test", car |-> <<>>]]
    /\ UNCHANGED <<training_queue, enqueuedLog, dequeuedLog, lastQueue, enqueueCalls,
                   callVars, stopVars>>

\* the worker function returns
TW_Exit(i) ==
    /\ threads[i].pc = "exit"
    /\ threads' = [threads EXCEPT ![i].pc = "dead"]
    /\ UNCHANGED <<training_queue, enqueuedLog, dequeuedLog, lastQueue, enqueueCalls,
                   callVars, stopVars>>

(***************************************************************************)
(* TirePredictor.shutdown: the flag, the join (which returns after 5       *)
(* seconds whatever the worker does), the end of a recording session.      *)
(***************************************************************************)
SD_SetFlag ==
    /\ callPc = "idle"
    /\ ~should_stop_training
    /\ should_stop_training' = TRUE
    /\ dequeuedAtStop' = Len(dequeuedLog)
    /\ callPc' = "join"
    /\ lastCall' = "shutdown"
    /\ raised' = ""
    /\ UNCHANGED <<queueVars, lastEnd>>

SD_JoinAndEnd(size, io_ok) ==
    /\ callPc = "join"
    /\ callPc' = "idle"
    /\ IF is_recording
       THEN TP_EndSession(size, io_ok)
       ELSE UNCHANGED <<collVars, dirVars, predVars, storVars, raised, lastEnd>>
    /\ UNCHANGED <<queueVars, stopVars, lastCall>>

(***************************************************************************)
(* SpecLifecycle: the owner's thread calls start_session, end_session,     *)
(* _queue_training and shutdown; the workers run in between.               *)
(***************************************************************************)
LifeStart ==
    /\ callPc = "idle"
    /\ \E size \in SessionSizes :
           TP_StartSession(<<"A">>, <<"C">>, [k \in {} |-> 0], size)
    /\ raised' = ""
    /\ lastCall' = "start_session"
    /\ lastEnd' = <<>>
    /\ UNCHANGED <<callPc, queueVars, stopVars>>
    /\ UNCHANGED <<storVars, learnVars, countVars, trainVars, current_trends>>

LifeEnd ==
    /\ callPc = "idle"
    /\ callPc' = "idle"
    /\ lastCall' = "end_session"
    /\ \E size \in SessionSizes, io_ok \in BOOLEAN : TP_EndSession(size, io_ok)
    /\ UNCHANGED <<queueVars, stopVars>>
    /\ UNCHANGED <<physVars, learnVars, countVars, trainVars, trendVars>>

LifeQueueTraining ==
    /\ \E car \in CarNames : QT_Locked(car)
    /\ UNCHANGED <<physVars, collVars, dirVars, predVars, storVars, learnVars, countVars,
                   trainVars, trendVars>>

LifeStartThread ==
    /\ QT_StartThread
    /\ UNCHANGED <<physVars, collVars, dirVars, predVars, storVars, learnVars, countVars,
                   trainVars, trendVars>>

WorkerTestStop ==
    /\ \E i \in DOMAIN threads : TW_TestStop(i)
    /\ UNCHANGED <<physVars, collVars, dirVars, predVars, storVars, learnVars, countVars,
                   trainVars, trendVars>>

WorkerDequeue ==
    /\ \E i \in DOMAIN threads : TW_Dequeue(i)
    /\ UNCHANGED <<physVars, collVars, dirVars, predVars, storVars, learnVars, countVars,
                   trainVars, trendVars>>

WorkerTrain ==
    /\ \E i \in DOMAIN threads : TW_Train(i)
    /\ UNCHANGED <<physVars, collVars, dirVars, predVars, storVars, learnVars, countVars,
                   trendVars>>

WorkerExit ==
    /\ \E i \in DOMAIN threads : TW_Exit(i)
    /\ UNCHANGED <<physVars, collVars, dirVars, predVars, storVars, learnVars, countVars,
                   trainVars, trendVars>>

LifeShutdown ==
    /\ SD_SetFlag
    /\ UNCHANGED <<physVars, collVars, dirVars, predVars, storVars, learnVars, countVars,
                   trainVars, trendVars>>

LifeShutdownJoin ==
    /\ \E size \in SessionSizes, io_ok \in BOOLEAN : SD_JoinAndEnd(size, io_ok)
    /\ UNCHANGED <<physVars, learnVars, countVars, trainVars, trendVars>>

NextWorker == WorkerTestStop \/ WorkerDequeue \/ WorkerTrain \/ WorkerExit

NextLifecycle ==
    \/ LifeStart \/ LifeEnd \/ LifeQueueTraining \/ LifeStartThread
    \/ NextWorker \/ LifeShutdown \/ LifeShutdownJoin

SpecLifecycle == Init /\ [][NextLifecycle]_vars

(***************************************************************************)
(* SpecQueueFair: _queue_training calls and the workers, no shutdown.  A   *)
(* call that has begun runs to its end and a thread that can take a step   *)
(* eventually takes it; nothing obliges the owner to call again.           *)
(***************************************************************************)
NextQueue == LifeQueueTraining \/ LifeStartThread \/ NextWorker

SpecQueueFair ==
    Init /\ [][NextQueue]_vars /\ WF_vars(LifeStartThread) /\ WF_vars(NextWorker)

(***************************************************************************)
(* Properties of the physics layer (SpecPhysics).                          *)
(***************************************************************************)
PredictCalls == SelectSeq(pmTrace, LAMBDA x : x # "calibrate")
NoCalibration == \A i \in DOMAIN pmTrace : pmTrace[i] # "calibrate"
AllZones(P(_)) == \A tire \in Tires, zone \in Zones : P(current_temps[tire][zone])

\* C9: after reset(b) (construction leaves the state of reset(70)) the first
\* predict call returns exactly b for all zones, and of the predict calls
\* since the reset exactly the first is a seeding tick: every later one
\* integrates.
C9_SeedOnlyFirst ==
    /\ \A i \in DOMAIN PredictCalls : (PredictCalls[i] = "seed") <=> (i = 1)
    /\ pmTrace = <<"seed">> => current_temps = UniformTemps(resetBase)

C7_PitEntriesAreEdges ==
    current_session # <<>>
        => [i \in DOMAIN current_session[1].pit_entries |->
               current_session[1].pit_entries[i].temps] = edgeTemps

(***************************************************************************)
(* Properties of the predictor (SpecPredict).                              *)
(***************************************************************************)
Has(actual, tire, zone) == tire \in DOMAIN actual /\ zone \in DOMAIN actual[tire]

\* C8 as stated: after calibrate_with_actual every zone given a nonzero value
\* holds that value, every zone whose value is missing or zero is unchanged,
\* and last_update_time is unchanged.
C8_NonzeroApplied ==
    calPre # <<>> =>
        /\ last_update_time = calPre[1].last_update_time
        /\ \A tire \in Tires, zone \in Zones :
               IF Has(last_actual_temps, tire, zone) /\ last_actual_temps[tire][zone] # 0
               THEN current_temps[tire][zone] = last_actual_temps[tire][zone]
               ELSE current_temps[tire][zone] = calPre[1].temps[tire][zone]

\* C8 amended: after calibrate_with_actual every zone given a positive value
\* holds that value, every zone whose value is missing, zero or negative is
\* unchanged, and last_update_time is unchanged.
C8_PositiveApplied ==
    calPre # <<>> =>
        /\ last_update_time = calPre[1].last_update_time
        /\ \A tire \in Tires, zone \in Zones :
               IF Has(last_actual_temps, tire, zone) /\ last_actual_temps[tire][zone] > 0
               THEN current_temps[tire][zone] = last_actual_temps[tire][zone]
               ELSE current_temps[tire][zone] = calPre[1].temps[tire][zone]

\* a calibration that changed a zone and was given a negative value
C8_CalibratedWithNegative ==
    /\ calPre # <<>>
    /\ \E tire \in Tires, zone \in Zones :
           Has(last_actual_temps, tire, zone) /\ last_actual_temps[tire][zone] < 0
    /\ \E tire \in Tires, zone \in Zones :
           /\ Has(last_actual_temps, tire, zone)
           /\ last_actual_temps[tire][zone] > 0
           /\ calPre[1].temps[tire][zone] # last_actual_temps[tire][zone]

PhysicsOnly == blendIn # <<>> /\ blendIn[1].pattern_conf = 0 /\ blendIn[1].ml_conf = 0

\* C1 as stated: with pattern_conf = 0 and ml_conf = 0 the blended
\* temperature of every zone equals the zone's physics temperature exactly.
C1_BlendEqualsPhysics ==
    PhysicsOnly =>
        \A tire \in Tires, zone \in Zones :
            current_predictions[tire][zone] * 100 = blendIn[1].physics[tire][zone]

\* C1 amended: with pattern_conf = 0 and ml_conf = 0 the blended temperature
\* of every zone is the zone's physics temperature clamped to [60, 300] and
\* rounded to one decimal: never more than 0.05 F from the clamped value.
C1_BlendIsRoundedClampedPhysics ==
    PhysicsOnly =>
        \A tire \in Tires, zone \in Zones :
            Abs(current_predictions[tire][zone] * 100
                - Max(BlendFloor, Min(blendIn[1].physics[tire][zone], BlendCeiling))) <= 50

\* a physics-only blend of a physics temperature off the tenths grid, of one
\* under 60 F, with ML temperatures that are not zero
C1_PhysicsOnlyBlended ==
    /\ PhysicsOnly
    /\ \E tire \in Tires, zone \in Zones : blendIn[1].physics[tire][zone] % 100 # 0
    /\ \E tire \in Tires, zone \in Zones : blendIn[1].physics[tire][zone] < BlendFloor
    /\ \E tire \in Tires, zone \in Zones : blendIn[1].ml[tire][zone] # 0

\* C2: the confidences are in [0, 1], the total blend weight is at least 0.3
\* (so the fallback of a zero weight is never taken), and every blended
\* temperature predict returns lies in [60, 300].
C2_WeightPositiveAndRange ==
    blendIn # <<>> =>
        /\ blendIn[1].pattern_conf \in 0..100
        /\ blendIn[1].ml_conf \in 0..100
        /\ blendIn[1].total_weight >= PhysicsWeight
        /\ blendIn[1].total_weight > 0
        /\ \A tire \in Tires, zone \in Zones :
               /\ current_predictions[tire][zone] >= BlendFloor \div 100
               /\ current_predictions[tire][zone] <= BlendCeiling \div 100

\* a blend of all three layers that the clamp held at 60 F
C2_ThreeLayerBlendClamped ==
    /\ blendIn # <<>>
    /\ blendIn[1].pattern_conf > 0
    /\ blendIn[1].ml_conf > 0
    /\ \E tire \in Tires, zone \in Zones :
           current_predictions[tire][zone] = BlendFloor \div 100

(***************************************************************************)
(* Properties of the storage layer (SpecStorage, SpecSynth).               *)
(***************************************************************************)
\* the car@track combination a session was recorded for
SessionCombo(f) == << f.car, f.track >>

\* C3: after check_and_cleanup(force=True) every car@track combination keeps
\* at least min(3, the files it had) raw session files, its most recent
\* ones; a file is deleted only if it is outside the 3 most recent of its
\* own combination and older than 30 days.
C3_KeepsRecentOfEachCombo ==
    (lastCleanup # <<>> /\ lastCleanup[1].force) =>
        LET before == lastCleanup[1].before
            deleted == lastCleanup[1].deleted
        IN  \A f \in before :
                LET own == { g \in before : SessionCombo(g) = SessionCombo(f) }
                IN  /\ Cardinality(own \ deleted) >= Min(MinSessionsPerCombo, Cardinality(own))
                    /\ SM_Newest(own, MinSessionsPerCombo) \cap deleted = {}
                    /\ f \in deleted =>
                           /\ f \notin SM_Newest(own, MinSessionsPerCombo)
                           /\ lastCleanup[1].now - f.day > SessionRetentionDays

\* C5: a raw session file whose synthesis fails is left on disk: every file
\* a cleanup deletes was synthesized into the store first.
C5_DeletedOnlyIfSynthesized ==
    lastCleanup # <<>> => lastCleanup[1].deleted \subseteq lastCleanup[1].synthesized

\* C6: whenever a cleanup has run, the total size of the session, model and
\* calibration files afterwards is at most 100 MB.
C6_UnderCeilingAfterCleanup ==
    (lastCleanup # <<>> /\ lastCleanup[1].cleaned) =>
        lastCleanup[1].after_kb <= MaxTotalSize

\* C4: the list stored for a combo never holds more than 100 samples; when a
\* merge exceeds 100, exactly 100 entries are kept, at distinct, increasing
\* and evenly spaced positions (the i-th within one of i * n / 100) of the
\* merged list sorted by stint_time.
C4_CapAndEvenSelection ==
    /\ \A c \in DOMAIN synth_data : Len(synth_data[c]) <= MaxSyntheticSamples
    /\ (lastSynth # <<>> /\ lastSynth[1].ok /\ Len(lastSynth[1].merged) > MaxSyntheticSamples) =>
           LET n == Len(lastSynth[1].merged)
               pos == lastSynth[1].positions
               kept == synth_data[lastSynth[1].combo]
               sorted == SortByStintTime(lastSynth[1].merged)
           IN  /\ Len(kept) = MaxSyntheticSamples
               /\ Len(pos) = MaxSyntheticSamples
               /\ \A j \in 1..MaxSyntheticSamples :
                      /\ pos[j] \in 1..n
                      /\ j > 1 => pos[j - 1] < pos[j]
                      /\ (j - 1) * n - MaxSyntheticSamples
                            <= MaxSyntheticSamples * (pos[j] - 1)
                      /\ MaxSyntheticSamples * (pos[j] - 1) <= (j - 1) * n
                      /\ kept[j] = sorted[pos[j]]
                      /\ j > 1 => kept[j - 1].stint_time <= kept[j].stint_time

\* a merge of 114 samples cut to 100, and one of an already cut list
C4_MergeOverCap ==
    /\ lastSynth # <<>> /\ lastSynth[1].ok
    /\ Len(lastSynth[1].merged) \in {114, 103, 157}
    /\ Len(synth_data[lastSynth[1].combo]) = MaxSyntheticSamples

(***************************************************************************)
(* Properties of the pattern learner (SpecCorners).                        *)
(***************************************************************************)
SingleMerge == lastMerge # <<>> /\ Len(lastMerge[1].new_corners) = 1

\* C11: a new corner observation less than 0.05 of lap distance from a stored
\* corner is merged into the first such corner: its count grows by one, its
\* avg_lateral_g and avg_speed become the count-weighted running averages,
\* the list keeps its length and its other entries; otherwise the
\* observation is appended as a separate entry with count 1.
C11_MergeOrAppend ==
    SingleMerge =>
        LET before == lastMerge[1].before
            new == lastMerge[1].new_corners[1]
            near == { i \in DOMAIN before : Abs(before[i].lap_pct - new.lap_pct) < CornerMergeWindow }
        IN  IF near = {}
            THEN /\ Len(corner_patterns) = Len(before) + 1
                 /\ SubSeq(corner_patterns, 1, Len(before)) = before
                 /\ corner_patterns[Len(before) + 1].lap_pct = new.lap_pct
                 /\ corner_patterns[Len(before) + 1].avg_lateral_g = new.avg_lateral_g
                 /\ corner_patterns[Len(before) + 1].avg_speed = new.avg_speed
                 /\ corner_patterns[Len(before) + 1].count = 1
            ELSE /\ Len(corner_patterns) = Len(before)
                 /\ \E i \in near :
                        LET old == before[i]
                            now == corner_patterns[i]
                        IN  /\ \A j \in DOMAIN before : j # i => corner_patterns[j] = before[j]
                            /\ now.count = old.count + 1
                            /\ now.lap_pct = old.lap_pct
                            /\ Abs(now.avg_lateral_g * now.count
                                    - (old.avg_lateral_g * old.count + new.avg_lateral_g)) < now.count
                            /\ Abs(now.avg_speed * now.count
                                    - (old.avg_speed * old.count + new.avg_speed)) < now.count

\* observations at 0.10 and 0.12 are one entry of count 2 and one at 0.50 is
\* a separate entry
C11_MergedAndSeparate ==
    /\ SingleMerge
    /\ Len(corner_patterns) = 2
    /\ corner_patterns[1].lap_pct = 100 /\ corner_patterns[1].count = 2
    /\ corner_patterns[1].avg_lateral_g = 1500
    /\ corner_patterns[2].lap_pct = 500 /\ corner_patterns[2].count = 1

(***************************************************************************)
(* Properties of the model trainer (SpecTrainer).                          *)
(***************************************************************************)
\* the number of training samples with a positive reading for the zone
ValidTargets(samples, key) ==
    LET idx == { i \in DOMAIN samples : samples[i].target[key] > 0 }
        cnt == [i \in DOMAIN samples |-> samples[i].count]
    IN  SumOver(cnt, idx)

\* C12: when train_models runs with at least 50 samples in total, a zone
\* with fewer than 50 valid (positive) targets gets no model and a zone with
\* at least 50 valid targets gets one, also when other samples of the
\* training set have no target for that zone.
C12_ZoneTrainedIffEnoughTargets ==
    (train_result # <<>> /\ train_result[1].samples >= MinSamplesForTraining) =>
        \A key \in ZoneKeys :
            (key \in train_result[1].models_trained)
                <=> (ValidTargets(train_result[1].training_set, key) >= MinSamplesForTraining)

\* C16: train_models overwrites a persisted zone model only if force_retrain
\* is set, no readable persisted model exists, or the new model's validation
\* MAE is strictly lower; a call without force_retrain never raises the
\* validation MAE recorded in a readable persisted model.
C16_OverwrittenOnlyIfBetter ==
    train_result # <<>> =>
        LET r == train_result[1]
        IN  \A key \in DOMAIN r.models_before :
                /\ key \in DOMAIN persisted_models
                /\ (persisted_models[key] # r.models_before[key]
                        => \/ r.force_retrain
                           \/ ~r.models_before[key].readable
                           \/ persisted_models[key].val_mae < r.models_before[key].val_mae)
                /\ (~r.force_retrain /\ r.models_before[key].readable
                        => /\ persisted_models[key].readable
                           /\ persisted_models[key].val_mae <= r.models_before[key].val_mae)

\* a call without force_retrain whose model (MAE 1.2) was worse than the
\* persisted one (MAE 0.8) and left it in place
C16_WorseModelDiscarded ==
    /\ train_result # <<>>
    /\ ~train_result[1].force_retrain
    /\ train_result[1].val_mae = 12
    /\ <<"RR", "R">> \in train_result[1].models_trained
    /\ <<"RR", "R">> \in DOMAIN train_result[1].models_before
    /\ train_result[1].models_before[<<"RR", "R">>] = [val_mae |-> 8, readable |-> TRUE]
    /\ persisted_models[<<"RR", "R">>].val_mae = 8

(***************************************************************************)
(* Properties of the persisted sessions (SpecRoundTrip).                   *)
(***************************************************************************)
\* C13: for every session file end_session wrote, metadata.total_samples is
\* the length of the stored telemetry list and the number of samples
\* collected in the session (the buffered ones included),
\* metadata.pit_entries is the length of the stored pit_entries list, and
\* the reloaded file has the same two counts.
C13_CountsAgree ==
    \A f \in files :
        /\ f.seq \in DOMAIN savedCounts
        /\ f.total_samples = Len(f.telemetry)
        /\ f.total_samples = savedCounts[f.seq]
        /\ f.n_pit_entries = Len(f.pit_entries)
        /\ PL_LoadSession(f).telemetry_len = PL_LoadSession(f).metadata.total_samples
        /\ PL_LoadSession(f).pit_entries_len = PL_LoadSession(f).metadata.pit_entries

\* a saved session of 61 samples (60 flushed, one still buffered at the
\* end) with a pit entry
C13_FlushedAndBufferedSaved ==
    \E f \in files :
        /\ f.total_samples = FlushEvery + 1
        /\ f.n_pit_entries = 1

(***************************************************************************)
(* Properties of the trends (SpecTrends).                                  *)
(***************************************************************************)
\* the history points recorded for the tire when the last predict ran
TrendPoints(tire) ==
    Len(trendIn[1][tire]["L"]) + Len(trendIn[1][tire]["C"]) + Len(trendIn[1][tire]["R"])

\* 250 times the rate: the last five points against the five before them
TrendRate(tire) ==
    LET h == trendIn[1][tire]["L"] \o trendIn[1][tire]["C"] \o trendIn[1][tire]["R"]
        at(i) == h[Len(h) - i]
    IN  (at(0) + at(1) + at(2) + at(3) + at(4)) - (at(5) + at(6) + at(7) + at(8) + at(9))

TrendAsClaimed(tire) ==
    IF TrendPoints(tire) < 10 THEN current_trends[tire] = "unknown"
    ELSE /\ current_trends[tire] # "unknown"
         /\ current_trends[tire] = "heating_fast" <=> TrendRate(tire) > 1250
         /\ current_trends[tire] = "heating"
                <=> (TrendRate(tire) > 500 /\ TrendRate(tire) <= 1250)
         /\ current_trends[tire] = "cooling_fast" <=> TrendRate(tire) < -1250
         /\ current_trends[tire] = "cooling"
                <=> (TrendRate(tire) < -500 /\ TrendRate(tire) >= -1250)
         /\ current_trends[tire] = "stable"
                <=> (TrendRate(tire) >= -500 /\ TrendRate(tire) <= 500)

\* C14: after start_session, the trend predict returns for a tire is
\* 'unknown' exactly while fewer than 10 history points have been recorded
\* for the tire in the session, and is never 'unknown' again afterwards in
\* that session; a known trend is heating_fast for a rate > 5, heating for a
\* rate > 2, cooling_fast for a rate < -5, cooling for a rate < -2, else
\* stable.
C14_TrendKnownFromTenPoints ==
    /\ [](current_car # <<>> /\ trendIn # <<>> => \A tire \in Tires : TrendAsClaimed(tire))
    /\ [][\A tire \in Tires :
             (/\ current_car # <<>> /\ trendIn # <<>> /\ trendIn' # <<>>
              /\ current_trends[tire] # "unknown")
                 => current_trends'[tire] # "unknown"]_vars

\* the eighth predict of a session finds 21 points per tire: LF, the only
\* tire with ML models, is heating fast and RR is stable
C14_TrendsKnown ==
    /\ current_car # <<>> /\ trendIn # <<>>
    /\ TrendPoints("LF") = 21
    /\ current_trends["LF"] = "heating_fast"
    /\ current_trends["RR"] = "stable"

(***************************************************************************)
(* Properties of the session lifecycle (SpecLifecycle).                    *)
(***************************************************************************)
\* C15: when end_session is called with an active session that the
\* collector persists, the same call feeds the file to learn_from_session,
\* enqueues the car for training, runs the storage threshold check and
\* returns with the predictor Idle: current_car and current_track cleared,
\* loaded_models empty.
C15_EndSessionLearnsAndIdles ==
    (lastCall = "end_session" /\ lastEnd # <<>> /\ lastEnd[1].persisted) =>
        /\ raised = ""
        /\ lastEnd[1].learned
        /\ lastEnd[1].enqueued
        /\ lastEnd[1].storage_checked
        /\ current_car = <<>>
        /\ current_track = <<>>
        /\ DOMAIN loaded_models = {}

\* C18: every public entry point of TirePredictor returns normally; no
\* exception escapes to its caller, also when a lower layer fails.
C18_NoExceptionEscapes == raised = ""

\* C20: once shutdown has set the stop flag, the worker dequeues no further
\* car and starts no new training job (at most the job in flight goes on),
\* and when shutdown has returned the collector is not recording.
C20_NoDequeueAfterStop ==
    /\ should_stop_training => Len(dequeuedLog) = dequeuedAtStop
    /\ (lastCall = "shutdown" /\ callPc = "idle" /\ raised = "") => ~is_recording

(***************************************************************************)
(* Properties of the training queue (SpecQueueFair).                       *)
(***************************************************************************)
Training(car) == \E i \in DOMAIN threads : threads[i].pc = "train" /\ threads[i].car = << car >>

\* C17: under any interleaving of _queue_training calls and the worker, the
\* queue never holds a car twice (queuing a car that is in the queue leaves
\* the queue as it is), cars are dequeued in the order they were enqueued,
\* and at most one training job runs at any time.
C17_QueueDiscipline ==
    /\ \A i, j \in DOMAIN training_queue : training_queue[i] = training_queue[j] => i = j
    /\ (lastQueue # <<>> /\ InQueue(lastQueue[1].before, lastQueue[1].car))
           => lastQueue[1].after = lastQueue[1].before
    /\ Len(dequeuedLog) <= Len(enqueuedLog)
    /\ dequeuedLog = SubSeq(enqueuedLog, 1, Len(dequeuedLog))
    /\ dequeuedLog \o training_queue = enqueuedLog
    /\ Cardinality({ i \in DOMAIN threads : threads[i].pc = "train" }) <= 1
    /\ Cardinality({ i \in DOMAIN threads : IsAlive(i) }) <= 1

\* a job runs for "A" while "ab" waits in the queue and a second
\* _queue_training("ab") has just left the queue as it was
C17_RequeuedWhileTraining ==
    /\ Training(<<"A">>)
    /\ training_queue = << <<"a", "b">> >>
    /\ lastQueue # <<>>
    /\ lastQueue[1].before = << <<"a", "b">> >>
    /\ lastQueue[1].car = <<"a", "b">>

\* C19: under fair scheduling and without a shutdown, every car placed in
\* the training queue is eventually dequeued and trained, with no further
\* enqueue needed, also when the worker is about to exit on an empty queue.
C19_QueuedCarTrained ==
    \A car \in CarNames : InQueue(training_queue, car) ~> Training(car)

(***************************************************************************)
(* TirePatternLearner.learn_from_session.  A session is the dictionary of  *)
(* a session file: car, track, telemetry and pit_entries.  Of a telemetry  *)
(* sample the learner reads g_forces.lateral and lap_pct (thousandths) and *)
(* inputs.speed; of a pit entry stint_duration and temps (whole degrees,   *)
(* two of the twelve "<tire>_<zone>" readings).                            *)
(***************************************************************************)
StintCap == 50
RangeCap == 100
CurveCap == 30
RangeKeys == {"LF_L", "RR_R"}

\* a list that is never cut
PL_KeepAll(list, n) == list

\* if len(list) > n: list = list[-n:]
PL_KeepLast(list, n) ==
    IF Len(list) > n THEN SubSeq(list, Len(list) - n + 1, Len(list)) ELSE list

\* the {'stint_time', 'temps'} points of the pit entries with a positive
\* stint_duration and readings
PL_StintPoints(pit_entries) ==
    LET valid == SelectSeq(pit_entries, LAMBDA e : e.stint_duration > 0 /\ e.temps # <<>>)
    IN  [i \in 1..Len(valid) |-> [stint_time |-> valid[i].stint_duration, temps |-> valid[i].temps]]

\* the readings of one zone between 180 and 220 degrees
PL_OptimalTemps(pit_entries, key) ==
    LET points == PL_StintPoints(pit_entries)
        good == SelectSeq(points, LAMBDA e : 180 <= e.temps[key] /\ e.temps[key] <= 220)
    IN  [i \in 1..Len(good) |-> good[i].temps[key]]

\* TirePatternLearner._extract_car_patterns: None (<<>>) without pit entries
PL_ExtractCarPatterns(session) ==
    IF session.pit_entries = <<>> THEN <<>>
    ELSE << [stint_progression |-> PL_StintPoints(session.pit_entries),
             optimal_ranges |->
                 [k \in { k \in RangeKeys : PL_OptimalTemps(session.pit_entries, k) # <<>> } |->
                     PL_OptimalTemps(session.pit_entries, k)]] >>

\* the corner recorded on the exit of a run of high-g samples; the key
\* 'count' is added by the merge
PL_CornerZone(corner_data) ==
    [lap_pct |-> corner_data[1].lap_pct,
     avg_lateral_g |-> SumSeq([i \in DOMAIN corner_data |-> Abs(corner_data[i].lateral)])
                           \div Len(corner_data),
     avg_speed |-> SumSeq([i \in DOMAIN corner_data |-> corner_data[i].speed])
                       \div Len(corner_data),
     duration |-> Len(corner_data),
     count |-> 0]

\* one pass of the loop of _detect_corner_heating
PL_ScanStep(st, sample) ==
    IF Abs(sample.lateral) > 1000
    THEN [st EXCEPT !.in_corner = TRUE,
                    !.corner_data = IF st.in_corner THEN Append(st.corner_data, sample)
                                    ELSE << sample >>]
    ELSE IF st.in_corner
    THEN [st EXCEPT !.in_corner = FALSE,
                    !.corner_zones = IF Len(st.corner_data) > 5
                                     THEN Append(st.corner_zones, PL_CornerZone(st.corner_data))
                                     ELSE st.corner_zones]
    ELSE st

\* the loop over the samples lo..hi, in order, from the state st (the range
\* is halved to keep the evaluation shallow)
RECURSIVE PL_ScanCorners(_, _, _, _)
PL_ScanCorners(telemetry, st, lo, hi) ==
    IF lo > hi THEN st
    ELSE IF lo = hi THEN PL_ScanStep(st, telemetry[lo])
    ELSE LET mid == (lo + hi) \div 2
         IN  CHOOSE after \in { PL_ScanCorners(telemetry, half, mid + 1, hi) :
                                   half \in { PL_ScanCorners(telemetry, st, lo, mid) } } : TRUE

\* TirePatternLearner._detect_corner_heating
PL_DetectCornerHeating(telemetry) ==
    IF Len(telemetry) < 100 THEN <<>>
    ELSE PL_ScanCorners(telemetry,
                        [in_corner |-> FALSE, corner_data |-> <<>>, corner_zones |-> <<>>],
                        1, Len(telemetry)).corner_zones

\* TirePatternLearner._extract_track_patterns: None (<<>>) without
\* telemetry or without pit entries
PL_ExtractTrackPatterns(session) ==
    IF session.telemetry = <<>> \/ session.pit_entries = <<>> THEN <<>>
    ELSE << [stint_curves |-> PL_StintPoints(session.pit_entries),
             corner_patterns |-> PL_DetectCornerHeating(session.telemetry)] >>

\* TirePatternLearner._merge_car_patterns; confidence in percent
PL_MergeCarPatterns(patterns, car, new_pattern) ==
    LET old == IF car \in DOMAIN patterns THEN patterns[car]
               ELSE [stint_progression |-> <<>>, optimal_ranges |-> [k \in {} |-> <<>>],
                     total_sessions |-> 0, confidence |-> 0]
        new_ranges == new_pattern.optimal_ranges
        merged ==
            [stint_progression |->
                 PL_KeepLast(old.stint_progression \o new_pattern.stint_progression, StintCap),
             optimal_ranges |->
                 [k \in DOMAIN old.optimal_ranges \cup DOMAIN new_ranges |->
                     IF k \in DOMAIN new_ranges
                     THEN PL_KeepLast((IF k \in DOMAIN old.optimal_ranges
                                       THEN old.optimal_ranges[k] ELSE <<>>) \o new_ranges[k],
                                      RangeCap)
                     ELSE old.optimal_ranges[k]],
             total_sessions |-> old.total_sessions + 1,
             confidence |-> Min((old.total_sessions + 1) * 10, 100)]
    IN  [c \in DOMAIN patterns \cup {car} |-> IF c = car THEN merged ELSE patterns[c]]

\* TirePatternLearner._merge_track_patterns; confidence in percent
PL_MergeTrackPatterns(patterns, combo, new_pattern) ==
    LET old == IF combo \in DOMAIN patterns THEN patterns[combo]
               ELSE [stint_curves |-> <<>>, corner_patterns |-> <<>>,
                     total_sessions |-> 0, confidence |-> 0]
        merged ==
            [stint_curves |-> PL_KeepLast(old.stint_curves \o new_pattern.stint_curves, CurveCap),
             corner_patterns |->
                 PL_MergeCornerPatterns(old.corner_patterns, new_pattern.corner_patterns),
             total_sessions |-> old.total_sessions + 1,
             confidence |-> Min((old.total_sessions + 1) * 20, 100)]
    IN  [c \in DOMAIN patterns \cup {combo} |-> IF c = combo THEN merged ELSE patterns[c]]

\* the history of a list after `added` was appended to it
Arrived(log, k, added) ==
    [x \in DOMAIN log \cup {k} |->
        IF x = k THEN (IF k \in DOMAIN log THEN log[k] ELSE <<>>) \o added ELSE log[x]]

RECURSIVE ArrivedRanges(_, _, _, _)
ArrivedRanges(log, car, ranges, keys) ==
    IF keys = {} THEN log
    ELSE LET k == CHOOSE k \in keys : TRUE
         IN  ArrivedRanges(Arrived(log, <<car, k>>, ranges[k]), car, ranges, keys \ {k})

\* TirePatternLearner.learn_from_session on the session a file holds
PL_LearnFromSession(session) ==
    LET car == session.car
        combo == << session.car, session.track >>
        car_pattern_data == PL_ExtractCarPatterns(session)
        track_pattern_data == PL_ExtractTrackPatterns(session)
        new_car == IF car_pattern_data # <<>>
                   THEN PL_MergeCarPatterns(car_patterns, car, car_pattern_data[1])
                   ELSE car_patterns
        new_track == IF track_pattern_data # <<>>
                     THEN PL_MergeTrackPatterns(track_patterns, combo, track_pattern_data[1])
                     ELSE track_patterns
    IN  /\ car_patterns' = new_car
        /\ track_patterns' = new_track
        /\ patterns_files' = [car |-> new_car, track |-> new_track]
        /\ arrived' =
               [stint |-> IF car_pattern_data = <<>> THEN arrived.stint
                          ELSE Arrived(arrived.stint, car, car_pattern_data[1].stint_progression),
                ranges |-> IF car_pattern_data = <<>> THEN arrived.ranges
                           ELSE ArrivedRanges(arrived.ranges, car, car_pattern_data[1].optimal_ranges,
                                              DOMAIN car_pattern_data[1].optimal_ranges),
                curves |-> IF track_pattern_data = <<>> THEN arrived.curves
                           ELSE Arrived(arrived.curves, combo, track_pattern_data[1].stint_curves)]
        /\ lastDetect' = IF track_pattern_data = <<>> THEN <<>>
                         ELSE << [telemetry |-> session.telemetry,
                                  corners |-> track_pattern_data[1].corner_patterns] >>
        /\ learnCalls' = learnCalls + 1

\* the sessions of a stint-heavy season: n pit entries whose stint
\* durations continue from `base`, the first of 31 with no stint time yet;
\* LF_L reads 175..224 degrees, RR_R 200
PitEntriesOf(n, base) ==
    [i \in 1..n |->
        [stint_duration |-> IF n = 31 /\ i = 1 THEN 0 ELSE base + i,
         temps |-> [k \in RangeKeys |-> IF k = "LF_L" THEN 175 + ((base + i) % 50) ELSE 200]]]

StraightSample == [lateral |-> 300, lap_pct |-> 0, speed |-> 100]

StintSessions(base) ==
    { [car |-> DC_SanitizeName(car), track |-> <<"c">>,
       telemetry |-> tel, pit_entries |-> PitEntriesOf(n, base)] :
          car \in CarNames, n \in {0, 1, 31, 51}, tel \in { <<>>, << StraightSample >> } }

\* telemetry written as runs of samples: lateral g alternates between g1
\* and g2, speed between 140 and 120, lap_pct advances by 0.005 a sample
Run(g1, g2, len) == [g1 |-> g1, g2 |-> g2, len |-> len]
Low(len) == Run(300, -200, len)
High(len) == Run(1200, 1800, len)

RECURSIVE TelemetryOf(_, _)
TelemetryOf(runs, acc) ==
    IF runs = <<>> THEN acc
    ELSE TelemetryOf(Tail(runs),
             acc \o [k \in 1..Head(runs).len |->
                        [lateral |-> IF k % 2 = 1 THEN Head(runs).g1 ELSE Head(runs).g2,
                         lap_pct |-> (Len(acc) + k) * 5,
                         speed |-> IF k % 2 = 1 THEN 140 ELSE 120]])

\* one corner and its exit; a corner the recording ends in; a run of five;
\* two corners one low-g sample apart, the second a left-hander; a short
\* recording; a run at exactly 1.0 g
CornerTelemetries ==
    { TelemetryOf(runs, <<>>) :
        runs \in { << Low(93), High(6), Low(1) >>,
                   << Low(94), High(6) >>,
                   << Low(90), High(5), Low(5) >>,
                   << Low(80), High(6), Low(1), Run(-1500, -1500, 7), Low(6) >>,
                   << High(6), Low(1) >>,
                   << Low(90), Run(1000, -1000, 9), Low(1) >> } }

CornerSessions ==
    { [car |-> DC_SanitizeName(car), track |-> <<"c">>,
       telemetry |-> tel, pit_entries |-> PitEntriesOf(1, 0)] :
          car \in CarNames, tel \in CornerTelemetries }

(***************************************************************************)
(* SpecLearn: the pattern stores over sessions with many pit entries.      *)
(* SpecLearnCorners: the same over sessions with corners in the telemetry. *)
(***************************************************************************)
LearnStints ==
    /\ learnCalls < MaxLearnCalls
    /\ \E session \in StintSessions(100 * learnCalls) : PL_LearnFromSession(session)
    /\ UNCHANGED <<cornerVars, keyVars, physVars, collVars, dirVars, predVars, storVars,
                   trainVars, countVars, trendVars, lifeVars>>

LearnCorners ==
    /\ learnCalls < MaxLearnCalls
    /\ \E session \in CornerSessions : PL_LearnFromSession(session)
    /\ UNCHANGED <<cornerVars, keyVars, physVars, collVars, dirVars, predVars, storVars,
                   trainVars, countVars, trendVars, lifeVars>>

(***************************************************************************)
(* The names of cars and tracks across the layers.  A name is stored as    *)
(* the string of its words: the words and the separator between them (a    *)
(* blank in the name given to start_session, "_" in a sanitized name).     *)
(***************************************************************************)
NameKey(words, sep) == [words |-> words, sep |-> IF Len(words) > 1 THEN sep ELSE ""]

\* the dictionary learn_from_session loads from a session file: the names
\* are the sanitized ones; stint_duration is the simulator's session time
\* less the wall clock of the session start (tire_data_collector.py:277)
PL_SessionOf(f) ==
    [car |-> NameKey(f.car, "_"), track |-> NameKey(f.track, "_"),
     telemetry |-> [i \in DOMAIN f.telemetry |-> StraightSample],
     pit_entries |-> [i \in DOMAIN f.pit_entries |->
                        [stint_duration |-> 180 - 1700000000,
                         temps |-> [k \in RangeKeys |-> f.pit_entries[i].temps \div 1000]]]]

\* the confidence of TirePatternLearner.get_pattern_adjustment(car, track):
\* the mean of the car's and the combo's, 0 for a key that is not stored
PL_CarConfidence(car) ==
    IF car \in DOMAIN car_patterns THEN car_patterns[car].confidence ELSE 0
PL_TrackConfidence(combo) ==
    IF combo \in DOMAIN track_patterns THEN track_patterns[combo].confidence ELSE 0
PL_AdjustmentConfidence(car, track) ==
    (PL_CarConfidence(car) + PL_TrackConfidence(<<car, track>>)) \div 2

\* TirePredictor._get_pattern_adjustment with the names of the session
TP_LookupPatterns ==
    /\ current_car # <<>> /\ current_track # <<>>
    /\ lastLookup' =
           << [car |-> current_car[1], track |-> current_track[1],
               confidence |-> PL_AdjustmentConfidence(NameKey(current_car[1], " "),
                                                      NameKey(current_track[1], " ")),
               learn_calls |-> learnCalls] >>

\* sessions_dir.glob(f"{car}_*.json.gz") on the file <car>_<track>_<id>: a
\* name of several words holds blanks and matches no file; fold tells
\* whether the file system matches without regard to case
MT_GlobMatches(car, f, fold) ==
    LET name == f.car \o f.track
    IN  /\ Len(car) = 1
        /\ name # <<>>
        /\ IF fold THEN Lower(car[1]) = Lower(name[1]) ELSE car[1] = name[1]

\* TireModelTrainer._extract_features_targets: one sample for every pit
\* entry with telemetry of its lap, tagged with the session it is from
MT_ExtractFeaturesTargets(f) ==
    LET good == SelectSeq(f.pit_entries,
                          LAMBDA pe : \E i \in DOMAIN f.telemetry :
                                          f.telemetry[i].lap_num = pe.total_laps)
    IN  [i \in 1..Len(good) |->
            [count |-> 1, target |-> [k \in ZoneKeys |-> good[i].temps],
             session_car |-> f.car, session_seq |-> f.seq]]

RECURSIVE MT_LoadSessions(_)
MT_LoadSessions(session_files) ==
    IF session_files = {} THEN <<>>
    ELSE LET f == CHOOSE f \in session_files : \A g \in session_files : f.seq <= g.seq
         IN  MT_ExtractFeaturesTargets(f) \o MT_LoadSessions(session_files \ {f})

\* TireModelTrainer._load_training_data; a file that cannot be read is skipped
MT_LoadTrainingData(car, dir, fold) ==
    MT_LoadSessions({ f \in dir : MT_GlobMatches(car, f, fold) /\ f.ok })

\* TireModelTrainer.train_models(car) on the sessions directory
MT_TrainModelsOf(car, fold, mae) ==
    /\ trainCalls < MaxTrainCalls
    /\ MT_TrainModelsEffect(MT_LoadTrainingData(car, files, fold), FALSE, mae)
    /\ lastLoad' = << [car |-> car, dir |-> { f.seq : f \in files }] >>

(***************************************************************************)
(* SpecKeys: sessions of three cars are recorded, saved, learned from,     *)
(* looked up and trained on.                                               *)
(***************************************************************************)
KeyCarNames == CarNames \cup { <<"a">> }

\* the names of the session a start_session or end_session saves
Saved(log) ==
    IF is_recording /\ current_session # <<>>
    THEN [k \in DOMAIN log \cup {nextSeq + 1} |->
             IF k = nextSeq + 1 THEN << current_car[1], current_track[1] >> ELSE log[k]]
    ELSE log

KeysStart ==
    /\ sessionsStarted < MaxKeySessions
    /\ \E c \in KeyCarNames, size \in SessionSizes :
           TP_StartSessionEffect(c, <<"C">>, [k \in {} |-> 0], size)
    /\ startedAs' = Saved(startedAs)
    /\ UNCHANGED <<learnedSeqs, lastLookup, lastLoad>>
    /\ UNCHANGED <<cornerVars, patternVars, storVars, trainVars, countVars, lifeVars>>

KeysSample ==
    /\ DC_SessionTicks < MaxKeyTicks
    /\ \E p \in BOOLEAN : DC_CollectSample(FlatSnapshot(p, 180000))
    /\ UNCHANGED <<physVars, predVars, storVars, otherVars, trainVars, trendVars>>

KeysTick ==
    /\ is_recording /\ DC_SessionTicks < MaxKeyTicks
    /\ DC_SecondPasses
    /\ UNCHANGED <<physVars, predVars, storVars, otherVars, trainVars, trendVars>>

KeysEnd ==
    /\ is_recording
    /\ \E size \in SessionSizes : DC_EndSession(size)
    /\ startedAs' = Saved(startedAs)
    /\ UNCHANGED <<learnedSeqs, lastLookup, lastLoad>>
    /\ UNCHANGED <<cornerVars, patternVars, physVars, predVars, storVars, trainVars, countVars,
                   trendVars, lifeVars>>

KeysLearn ==
    /\ ~is_recording
    /\ \E f \in files :
           /\ f.seq \notin learnedSeqs
           /\ PL_LearnFromSession(PL_SessionOf(f))
           /\ learnedSeqs' = learnedSeqs \cup {f.seq}
    /\ UNCHANGED <<startedAs, lastLookup, lastLoad>>
    /\ UNCHANGED <<cornerVars, physVars, collVars, dirVars, predVars, storVars, trainVars,
                   countVars, trendVars, lifeVars>>

KeysLookup ==
    /\ is_recording
    /\ TP_LookupPatterns
    /\ UNCHANGED <<startedAs, learnedSeqs, lastLoad>>
    /\ UNCHANGED <<cornerVars, patternVars, physVars, collVars, dirVars, predVars, storVars,
                   trainVars, countVars, trendVars, lifeVars>>

KeysTrain ==
    /\ ~is_recording
    /\ \E car \in KeyCarNames, fold \in BOOLEAN : MT_TrainModelsOf(car, fold, 8)
    /\ UNCHANGED <<startedAs, learnedSeqs, lastLookup>>
    /\ UNCHANGED <<cornerVars, patternVars, physVars, collVars, dirVars, predVars, storVars,
                   countVars, trendVars, lifeVars>>

NextKeys ==
    KeysStart \/ KeysSample \/ KeysTick \/ KeysEnd \/ KeysLearn \/ KeysLookup \/ KeysTrain

SpecKeys == Init /\ [][NextKeys]_vars

NextLearn == LearnStints

SpecLearn == Init /\ [][NextLearn]_vars

NextLearnCorners == LearnCorners

SpecLearnCorners == Init /\ [][NextLearnCorners]_vars

\* C21: after collect_sample the buffer holds fewer than 60 samples; the
\* session's sample list followed by the buffer is exactly the sequence of
\* the samples collected in the session, in collection order, none lost or
\* duplicated; the buffer is empty whenever no session is active.
C21_BufferBoundedAndOrdered ==
    /\ Len(telemetry_buffer) < 60
    /\ (~is_recording \/ current_session = <<>>) => telemetry_buffer = <<>>
    /\ current_session # <<>> =>
           LET all == current_session[1].telemetry \o telemetry_buffer
           IN  /\ Len(all) = collected
               /\ \A i \in DOMAIN all : all[i].stint_time = 180 + i - 1

\* the sixtieth sample has moved the buffer into the session's list and a
\* further sample is buffered
C21_FlushedOnce ==
    /\ is_recording /\ current_session # <<>>
    /\ Len(current_session[1].telemetry) = 60
    /\ Len(telemetry_buffer) = 1

\* C23: after any sequence of corner merges into a pattern that started
\* empty, any two stored corners differ by at least 0.05 in lap-distance
\* fraction, so the list is no longer than the number of corners that fit
\* at that distance (at most 21 for fractions in [0, 1]).
C23_StoredCornersApart ==
    /\ \A i, j \in DOMAIN corner_patterns :
           i # j => Abs(corner_patterns[i].lap_pct - corner_patterns[j].lap_pct) >= 50
    /\ \A i \in DOMAIN corner_patterns : corner_patterns[i].lap_pct \in 0..1000
    /\ corner_patterns # <<>> =>
           LET pcts == { corner_patterns[i].lap_pct : i \in DOMAIN corner_patterns }
               lo == CHOOSE x \in pcts : \A y \in pcts : x <= y
               hi == CHOOSE x \in pcts : \A y \in pcts : y <= x
           IN  /\ (Len(corner_patterns) - 1) * 50 <= hi - lo
               /\ Len(corner_patterns) <= 21

\* four observations (0.10, 0.16, 0.12 and 0.50) have left three corners:
\* 0.12 was merged into the corner at 0.10, the one at 0.16 is 0.06 away
C23_ThreeCornersOfFour ==
    /\ Len(corner_patterns) = 3
    /\ SumCounts(corner_patterns) = 4
    /\ corner_patterns[1].lap_pct = 100
    /\ corner_patterns[1].count = 2
    /\ corner_patterns[2].lap_pct = 160

(***************************************************************************)
(* The blend with models for some zones only (SpecPredict).                *)
(***************************************************************************)
\* C26: when models are loaded for some zones only (ML confidence above 0),
\* a zone without a model gets no ML contribution: its blended temperature
\* is the blend of the physics and the pattern layer alone, not pulled
\* towards the placeholder 0.
C26_NoMlForZoneWithoutModel ==
    (blendIn # <<>> /\ blendIn[1].ml_conf > 0) =>
        \A tire \in Tires, zone \in Zones :
            <<tire, zone>> \notin blendIn[1].with_model =>
                current_predictions[tire][zone]
                    = TP_BlendTemp(blendIn[1].physics[tire][zone], blendIn[1].adj[tire][zone],
                                   0, blendIn[1].pattern_conf, 0)

\* C28: during an active session every predict call that passes the
\* 1-second rate limit, with the nested telemetry the prediction layers
\* read, appends one sample to the collector's session.
C28_EveryDuePredictSampled ==
    (is_recording /\ current_session # <<>>) => DC_SessionTicks = duePredicts

\* C30: the calibration term of the confidence reflects only a calibration
\* done in the current session: from start_session until
\* calibrate_with_actual is called the term is 0, also when an earlier
\* session was calibrated, and with both layer confidences 0 the confidence
\* predict returns is at most 0.20.
C30_CalibrationTermOfSession ==
    (current_car # <<>> /\ confidenceOut # <<>> /\ ~sessionCalibrated) =>
        /\ confidenceOut[1].calibration_term = 0
        /\ (confidenceOut[1].pattern_conf = 0 /\ confidenceOut[1].ml_conf = 0)
               => confidenceOut[1].confidence <= 2000

(***************************************************************************)
(* The load transfer of the physics layer (SpecPhysics).                   *)
(***************************************************************************)
Mirror(tire) ==
    IF tire = "LF" THEN "RF" ELSE IF tire = "RF" THEN "LF"
    ELSE IF tire = "LR" THEN "RR" ELSE "LR"
MirrorZone(zone) == IF zone = "L" THEN "R" ELSE IF zone = "R" THEN "L" ELSE "C"
MirrorTel(t) == [t EXCEPT !.lateral = -t.lateral]
LevelShocks(t) == \A tire \in Tires : t.shock[tire] = t.shock[Mirror(tire)]

\* C25: the load multiplier and the zone lateral factor predict applies are
\* mirror-symmetric in the turn direction: with equal left and right shock
\* loads, a tire at lateral g gets what its mirror tire (zones L and R
\* swapped) gets at the opposite lateral g.
C25_MirrorSymmetric ==
    (lastTel # <<>> /\ LevelShocks(lastTel[1])) =>
        \A tire \in Tires :
            /\ PM_AppliedLoadFactor(tire, lastTel[1])
                   = PM_AppliedLoadFactor(Mirror(tire), MirrorTel(lastTel[1]))
            /\ \A zone \in Zones :
                   PM_AppliedZoneFactor(tire, zone, lastTel[1])
                       = PM_AppliedZoneFactor(Mirror(tire), MirrorZone(zone), MirrorTel(lastTel[1]))

(***************************************************************************)
(* Properties of the names (SpecKeys).                                     *)
(***************************************************************************)
\* the saved sessions that were started with these names
SessionsOf(car, track) ==
    { k \in DOMAIN startedAs : startedAs[k] = << car, track >> }
SessionsOfCar(car) == { k \in DOMAIN startedAs : startedAs[k][1] = car }

\* C27: for every car and track name start_session accepts, the key under
\* which a finished session's patterns and file are stored is the key
\* looked up later for the same names: once sessions of (car, track) are
\* learned, the lookup in a session started with these names returns their
\* learned confidence, and train_models(car) loads their session files.
C27_StoredKeyIsLookupKey ==
    /\ (lastLookup # <<>> /\ lastLookup[1].learn_calls = learnCalls
          /\ SessionsOf(lastLookup[1].car, lastLookup[1].track) \cap learnedSeqs # {}) =>
           /\ lastLookup[1].confidence > 0
           /\ lastLookup[1].confidence
                  = PL_AdjustmentConfidence(NameKey(DC_SanitizeName(lastLookup[1].car), "_"),
                                            NameKey(DC_SanitizeName(lastLookup[1].track), "_"))
    /\ (lastLoad # <<>> /\ train_result # <<>>) =>
           \A f \in files :
               (/\ f.seq \in lastLoad[1].dir \cap SessionsOfCar(lastLoad[1].car)
                /\ MT_ExtractFeaturesTargets(f) # <<>>)
                   => \E i \in DOMAIN train_result[1].training_set :
                          train_result[1].training_set[i].session_seq = f.seq

\* C29: train_models(car) builds its training set only from sessions whose
\* recorded car is exactly car: the session of another car whose sanitized
\* name starts with car and an underscore contributes no sample.
C29_OnlySessionsOfTheCar ==
    (lastLoad # <<>> /\ train_result # <<>>) =>
        \A i \in DOMAIN train_result[1].training_set :
            NameKey(train_result[1].training_set[i].session_car, "_")
                = NameKey(lastLoad[1].car, " ")

(***************************************************************************)
(* Properties of learn_from_session (SpecLearn, SpecLearnCorners).         *)
(***************************************************************************)
\* the last n entries of a history
MostRecent(log, n) == IF Len(log) > n THEN SubSeq(log, Len(log) - n + 1, Len(log)) ELSE log

\* C22: after any sequence of learn_from_session calls each car's
\* stint_progression has at most 50 entries, each optimal_ranges list at
\* most 100 and each car@track stint_curves at most 30; each list is the
\* most recent of the entries that arrived, in arrival order.
C22_CappedToMostRecent ==
    /\ \A car \in DOMAIN car_patterns :
           /\ Len(car_patterns[car].stint_progression) <= 50
           /\ car_patterns[car].stint_progression = MostRecent(arrived.stint[car], 50)
           /\ \A k \in DOMAIN car_patterns[car].optimal_ranges :
                  /\ Len(car_patterns[car].optimal_ranges[k]) <= 100
                  /\ car_patterns[car].optimal_ranges[k] = MostRecent(arrived.ranges[<<car, k>>], 100)
    /\ \A combo \in DOMAIN track_patterns :
           /\ Len(track_patterns[combo].stint_curves) <= 30
           /\ track_patterns[combo].stint_curves = MostRecent(arrived.curves[combo], 30)

\* a car whose three lists have all dropped entries
C22_AllCapsExceeded ==
    \E car \in DOMAIN car_patterns :
        /\ Len(arrived.stint[car]) > 50
        /\ Len(car_patterns[car].stint_progression) = 50
        /\ "RR_R" \in DOMAIN car_patterns[car].optimal_ranges
        /\ Len(arrived.ranges[<<car, "RR_R">>]) > 100
        /\ Len(car_patterns[car].optimal_ranges["RR_R"]) = 100
        /\ <<car, <<"c">>>> \in DOMAIN track_patterns
        /\ Len(arrived.curves[<<car, <<"c">>>>]) > 30
        /\ Len(track_patterns[<<car, <<"c">>>>].stint_curves) = 30

\* the maximal runs of samples above 1.0 g: <<first, last>> index
MaximalRuns(tel) ==
    { r \in (DOMAIN tel) \X (DOMAIN tel) :
        /\ r[1] <= r[2]
        /\ \A i \in r[1]..r[2] : Abs(tel[i].lateral) > 1000
        /\ (r[1] = 1 \/ Abs(tel[r[1] - 1].lateral) <= 1000)
        /\ (r[2] = Len(tel) \/ Abs(tel[r[2] + 1].lateral) <= 1000) }

\* C24: _detect_corner_heating records exactly one corner for every maximal
\* run of more than 5 consecutive samples above 1.0 g of lateral
\* acceleration (the run's first lap fraction, its average |lateral g|, its
\* average speed, its length), and nothing for shorter runs.
C24_OneCornerPerRun ==
    lastDetect # <<>> =>
        LET tel == lastDetect[1].telemetry
            corners == lastDetect[1].corners
            long == { r \in MaximalRuns(tel) : r[2] - r[1] + 1 > 5 }
        IN  /\ Len(corners) = Cardinality(long)
            /\ \A r \in long : \E i \in DOMAIN corners :
                   /\ corners[i].lap_pct = tel[r[1]].lap_pct
                   /\ corners[i].duration = r[2] - r[1] + 1
                   /\ corners[i].avg_lateral_g =
                          SumSeq([k \in 1..(r[2] - r[1] + 1) |-> Abs(tel[r[1] + k - 1].lateral)])
                              \div (r[2] - r[1] + 1)
                   /\ corners[i].avg_speed =
                          SumSeq([k \in 1..(r[2] - r[1] + 1) |-> tel[r[1] + k - 1].speed])
                              \div (r[2] - r[1] + 1)

====
